---- MODULE Spec2Model ----
(***************************************************************************)
(* Guided expense entry of the Moneywise bot: the free-text entity         *)
(* extractor (ExpenseService.parse_smart_message), the FSM storage that    *)
(* holds each user's session, and the handlers of app/handlers/add.py as   *)
(* they are dispatched by the router.                                      *)
(*                                                                         *)
(* Texts are sequences of one-character strings.  Cyrillic words of the    *)
(* source are written in Latin transliteration (segodnya, vchera,          *)
(* pozavchera): only word characters and their order matter to the code.   *)
(***************************************************************************)
EXTENDS Integers, Sequences, FiniteSets, Bags, TLC

\* Optional values: None is the empty tuple, Some(x) the one-element tuple
None == <<>>

Some(x) == <<x>>

IsSome(o) == o # <<>>

Val(o) == o[1]

(***************************************************************************)
(* Characters and elementary string functions                              *)
(***************************************************************************)
Digits == <<"0", "1", "2", "3", "4", "5", "6", "7", "8", "9">>

DigitChars == {"0", "1", "2", "3", "4", "5", "6", "7", "8", "9"}

IsDigit(c) == c \in DigitChars

DigitVal(c) == (CHOOSE i \in 1..10 : Digits[i] = c) - 1

LowerLetters ==
    {"a", "b", "c", "d", "e", "f", "g", "h", "i", "j", "k", "l", "m",
     "n", "o", "p", "q", "r", "s", "t", "u", "v", "w", "x", "y", "z"}

UpperLetters == {"T", "V"}

\* str.lower() / re.IGNORECASE folding of one character
Lower(c) == CASE c = "T" -> "t" [] c = "V" -> "v" [] OTHER -> c

\* \w of the re module
IsWord(c) == IsDigit(c) \/ c \in LowerLetters \/ c \in UpperLetters \/ c = "_"

\* s[a..b] as a sequence (empty when a > b)
Slice(s, a, b) == IF a > b THEN <<>> ELSE [k \in 1..(b - a + 1) |-> s[a + k - 1]]

\* str.strip() for the space character
Strip(s) ==
    IF \A k \in 1..Len(s) : s[k] = " " THEN <<>>
    ELSE LET a == CHOOSE k \in 1..Len(s) :
                      s[k] # " " /\ \A j \in 1..(k - 1) : s[j] = " "
             b == CHOOSE k \in 1..Len(s) :
                      s[k] # " " /\ \A j \in (k + 1)..Len(s) : s[j] = " "
         IN Slice(s, a, b)

\* " ".join(s.split())
RECURSIVE CollapseFrom(_, _)
CollapseFrom(s, k) ==
    IF k > Len(s) THEN <<>>
    ELSE IF s[k] = " " /\ (k = Len(s) \/ s[k + 1] = " ")
         THEN CollapseFrom(s, k + 1)
         ELSE <<s[k]>> \o CollapseFrom(s, k + 1)

NormalizeSpaces(s) == CollapseFrom(Strip(s), 1)

\* \b between s[p] and s[p+1] (p = 0: before the text, p = Len(s): after it)
WordAt(s, p) == p >= 1 /\ p <= Len(s) /\ IsWord(s[p])

IsBoundary(s, p) == WordAt(s, p) # WordAt(s, p + 1)

\* the digits s[a..b] all are digits
AllDigits(s, a, b) == a <= b /\ b <= Len(s) /\ \A k \in a..b : IsDigit(s[k])

\* int() of a run of digits
RECURSIVE IntOf(_)
IntOf(ds) ==
    IF Len(ds) = 0 THEN 0
    ELSE 10 * IntOf(SubSeq(ds, 1, Len(ds) - 1)) + DigitVal(ds[Len(ds)])

\* str() of a natural number
RECURSIVE StrOfNat(_)
StrOfNat(n) ==
    IF n < 10 THEN <<Digits[n + 1]>>
    ELSE StrOfNat(n \div 10) \o <<Digits[(n % 10) + 1]>>

\* zero padded rendering with at least w digits ("%0wd")
RECURSIVE ZeroPad(_, _)
ZeroPad(ds, w) == IF Len(ds) >= w THEN ds ELSE ZeroPad(<<"0">> \o ds, w)

RECURSIVE Pow10(_)
Pow10(k) == IF k = 0 THEN 1 ELSE 10 * Pow10(k - 1)

(***************************************************************************)
(* decimal.Decimal: sign, coefficient and number of fractional digits      *)
(***************************************************************************)
\* position of the first "." of s, or 0
DotPos(s) ==
    IF \E k \in 1..Len(s) : s[k] = "."
    THEN CHOOSE k \in 1..Len(s) : s[k] = "." /\ \A j \in 1..(k - 1) : s[j] # "."
    ELSE 0

\* Decimal(s) for the plain notation [sign] digits [. digits]; None stands for
\* decimal.InvalidOperation, Some(d) for the value
DecimalOf(s) ==
    LET Number(neg, ip, fp) ==
            IF /\ Len(ip) + Len(fp) > 0
               /\ \A k \in 1..Len(ip) : IsDigit(ip[k])
               /\ \A k \in 1..Len(fp) : IsDigit(fp[k])
            THEN Some([neg |-> neg, coef |-> IntOf(ip \o fp), places |-> Len(fp)])
            ELSE None
        Split(neg, body, dot) ==
            Number(neg,
                   IF dot = 0 THEN body ELSE Slice(body, 1, dot - 1),
                   IF dot = 0 THEN <<>> ELSE Slice(body, dot + 1, Len(body)))
        Unsigned(neg, body) == Split(neg, body, DotPos(body))
        Signed(t) ==
            IF Len(t) > 0 /\ t[1] \in {"-", "+"}
            THEN Unsigned(t[1] = "-", Slice(t, 2, Len(t)))
            ELSE Unsigned(FALSE, t)
    IN Signed(Strip(s))

\* str(d)
DecimalStr(d) ==
    (IF d.neg THEN <<"-">> ELSE <<>>)
    \o StrOfNat(d.coef \div Pow10(d.places))
    \o (IF d.places = 0 THEN <<>>
        ELSE <<".">> \o ZeroPad(StrOfNat(d.coef % Pow10(d.places)), d.places))

\* d > 0
DecimalPositive(d) == ~d.neg /\ d.coef > 0

\* the token left as it is: no ',' becomes '.'
ReplaceComma_Kept(s) == s

\* str.replace(",", ".")
ReplaceComma(s) == [k \in 1..Len(s) |-> IF s[k] = "," THEN "." ELSE s[k]]

(***************************************************************************)
(* datetime.date and datetime.datetime                                     *)
(***************************************************************************)
IsLeap(y) == y % 4 = 0 /\ (y % 100 # 0 \/ y % 400 = 0)

DaysInMonth(y, m) ==
    CASE m \in {1, 3, 5, 7, 8, 10, 12} -> 31
      [] m \in {4, 6, 9, 11} -> 30
      [] OTHER -> IF IsLeap(y) THEN 29 ELSE 28

\* dt.date(year, month, day) raises ValueError unless this holds
ValidDate(y, m, d) ==
    /\ y >= 1 /\ y <= 9999
    /\ m >= 1 /\ m <= 12
    /\ d >= 1 /\ d <= DaysInMonth(y, m)

MkDate(y, m, d) == [year |-> y, month |-> m, day |-> d]

\* a <= b on dates
DateLE(a, b) ==
    \/ a.year < b.year
    \/ a.year = b.year /\ a.month < b.month
    \/ a.year = b.year /\ a.month = b.month /\ a.day <= b.day

\* date - dt.timedelta(days=k)
RECURSIVE MinusDays(_, _)
MinusDays(d, k) ==
    IF k = 0 THEN d
    ELSE MinusDays(
           IF d.day > 1 THEN MkDate(d.year, d.month, d.day - 1)
           ELSE IF d.month > 1
                THEN MkDate(d.year, d.month - 1, DaysInMonth(d.year, d.month - 1))
                ELSE MkDate(d.year - 1, 12, 31),
           k - 1)

\* datetime.replace(year=, month=, day=): the date changes, the time of day stays
ReplaceDate(t, d) == [t EXCEPT !.date = d]

Pad(n, w) == ZeroPad(StrOfNat(n), w)

\* date.isoformat(): YYYY-MM-DD
DateIso(d) == Pad(d.year, 4) \o <<"-">> \o Pad(d.month, 2) \o <<"-">> \o Pad(d.day, 2)

\* date.fromisoformat(s); None stands for ValueError
DateFromIso(s) ==
    LET Date(y, m, d) == IF ValidDate(y, m, d) THEN Some(MkDate(y, m, d)) ELSE None
    IN IF /\ Len(s) = 10
          /\ AllDigits(s, 1, 4) /\ s[5] = "-"
          /\ AllDigits(s, 6, 7) /\ s[8] = "-"
          /\ AllDigits(s, 9, 10)
       THEN Date(IntOf(Slice(s, 1, 4)), IntOf(Slice(s, 6, 7)), IntOf(Slice(s, 9, 10)))
       ELSE None

\* datetime.isoformat() of a time with zero seconds: YYYY-MM-DDTHH:MM:00
DatetimeIso(t) ==
    DateIso(t.date) \o <<"T">> \o Pad(t.hour, 2) \o <<":">> \o Pad(t.minute, 2)
    \o <<":", "0", "0">>

\* datetime.fromisoformat(s) to the minute; None stands for ValueError
DatetimeFromIso(s) ==
    LET Time(date, h, m, sec) ==
            IF IsSome(date) /\ h <= 23 /\ m <= 59 /\ sec <= 59
            THEN Some([date |-> Val(date), hour |-> h, minute |-> m])
            ELSE None
    IN IF /\ Len(s) = 19
          /\ s[11] = "T"
          /\ AllDigits(s, 12, 13) /\ s[14] = ":"
          /\ AllDigits(s, 15, 16) /\ s[17] = ":"
          /\ AllDigits(s, 18, 19)
       THEN Time(DateFromIso(Slice(s, 1, 10)), IntOf(Slice(s, 12, 13)),
                 IntOf(Slice(s, 15, 16)), IntOf(Slice(s, 18, 19)))
       ELSE None

(***************************************************************************)
(* Regular expressions of app/services/expenses.py                         *)
(***************************************************************************)
\* the character at position k, "" outside the text
CharAt(s, k) == IF k >= 1 /\ k <= Len(s) THEN s[k] ELSE ""

\* AMOUNT_PATTERN without its lookahead: the match is the first digit alone
AmountSearch_FirstDigit(s) ==
    IF ~\E k \in 1..Len(s) : IsDigit(s[k]) THEN None
    ELSE Some([from |-> CHOOSE k \in 1..Len(s) :
                            IsDigit(s[k]) /\ \A j \in 1..(k - 1) : ~IsDigit(s[j]),
               to |-> CHOOSE k \in 1..Len(s) :
                          IsDigit(s[k]) /\ \A j \in 1..(k - 1) : ~IsDigit(s[j])])

\* AMOUNT_PATTERN.search(text): (?<!\d)(\d+(?:[.,]\d{1,2})?)(?!\d).
\* The leftmost match starts at the first digit of the first run of digits and
\* takes the whole run; the optional group takes two digits, else one, and is
\* given up when a digit follows it.  A span is [from, to], both inclusive.
AmountSearch(s) ==
    LET Fraction(i, j, sep) ==
            Some([from |-> i,
                  to |-> IF sep /\ AllDigits(s, j + 2, j + 3) /\ ~IsDigit(CharAt(s, j + 4))
                         THEN j + 3
                         ELSE IF sep /\ AllDigits(s, j + 2, j + 2)
                                     /\ ~IsDigit(CharAt(s, j + 3))
                              THEN j + 2
                              ELSE j])
        Run(i, j) == Fraction(i, j, CharAt(s, j + 1) \in {".", ","})
        From(i) == Run(i, CHOOSE k \in i..Len(s) :
                              AllDigits(s, i, k) /\ ~IsDigit(CharAt(s, k + 1)))
    IN IF ~\E k \in 1..Len(s) : IsDigit(s[k]) THEN None
       ELSE From(CHOOSE k \in 1..Len(s) :
                     IsDigit(s[k]) /\ \A j \in 1..(k - 1) : ~IsDigit(s[j]))

\* the lengths of the three groups of DATE_PATTERN in the order the greedy
\* quantifiers \d{1,2}, \d{1,2}, \d{2,4} try them
DateGroupLengths ==
    <<<<2, 2, 4>>, <<2, 2, 3>>, <<2, 2, 2>>, <<2, 1, 4>>, <<2, 1, 3>>, <<2, 1, 2>>,
      <<1, 2, 4>>, <<1, 2, 3>>, <<1, 2, 2>>, <<1, 1, 4>>, <<1, 1, 3>>, <<1, 1, 2>>>>

\* \b(\d{1,2})[.](\d{1,2})[.](\d{2,4})\b matches at i with group lengths g
DateMatchesAt(s, i, g) ==
    /\ AllDigits(s, i, i + g[1] - 1)
    /\ CharAt(s, i + g[1]) = "."
    /\ IsBoundary(s, i - 1)
    /\ AllDigits(s, i + g[1] + 1, i + g[1] + g[2])
    /\ CharAt(s, i + g[1] + g[2] + 1) = "."
    /\ AllDigits(s, i + g[1] + g[2] + 2, i + g[1] + g[2] + g[3] + 1)
    /\ IsBoundary(s, i + g[1] + g[2] + g[3] + 1)

\* DATE_PATTERN.search(text): the span and the three groups as integers; the
\* leftmost position at which some choice of group lengths matches, with the
\* first such choice in the order the quantifiers try them
DateSearch(s) ==
    LET Groups(i, g) ==
            Some([from |-> i,
                  to |-> i + g[1] + g[2] + g[3] + 1,
                  day |-> IntOf(Slice(s, i, i + g[1] - 1)),
                  month |-> IntOf(Slice(s, i + g[1] + 1, i + g[1] + g[2])),
                  year |-> IntOf(Slice(s, i + g[1] + g[2] + 2,
                                       i + g[1] + g[2] + g[3] + 1))])
        Tried(i, fits) ==
            Groups(i, DateGroupLengths[CHOOSE k \in fits : \A j \in fits : k <= j])
        At(i) ==
            Tried(i, {n \in 1..Len(DateGroupLengths) :
                         DateMatchesAt(s, i, DateGroupLengths[n])})
        Leftmost(starts) ==
            IF starts = {} THEN None
            ELSE At(CHOOSE k \in starts : \A j \in starts : k <= j)
    IN Leftmost({i \in 1..Len(s) :
                    /\ IsDigit(s[i])
                    /\ \E n \in 1..Len(DateGroupLengths) :
                          DateMatchesAt(s, i, DateGroupLengths[n])})

\* the literal w occurs at i as a whole word, case folded: \bw\b, re.IGNORECASE
WordMatchesAt(s, w, i) ==
    /\ i + Len(w) - 1 <= Len(s)
    /\ \A k \in 1..Len(w) : Lower(s[i + k - 1]) = Lower(w[k])
    /\ IsBoundary(s, i - 1)
    /\ IsBoundary(s, i + Len(w) - 1)

\* the pattern anchored at the start of the text: re.match in place of search
WordSearch_AtStart(s, w) ==
    IF WordMatchesAt(s, w, 1) THEN Some([from |-> 1, to |-> Len(w)]) ELSE None

\* re.compile(rf"\b{re.escape(w)}\b", re.IGNORECASE).search(s): the leftmost
\* occurrence
WordSearch(s, w) ==
    LET At(i) == Some([from |-> i, to |-> i + Len(w) - 1])
        Leftmost(starts) ==
            IF starts = {} THEN None
            ELSE At(CHOOSE k \in starts : \A j \in starts : k <= j)
    IN Leftmost({i \in 1..Len(s) : WordMatchesAt(s, w, i)})

\* DATE_ALIASES in the order of the dict: segodnya 0, vchera 1, pozavchera 2
DATE_ALIASES ==
    <<[alias |-> <<"s", "e", "g", "o", "d", "n", "y", "a">>, offset |-> 0],
      [alias |-> <<"v", "c", "h", "e", "r", "a">>, offset |-> 1],
      [alias |-> <<"p", "o", "z", "a", "v", "c", "h", "e", "r", "a">>, offset |-> 2]>>

\* the loop over DATE_ALIASES.items(): the first alias of the dict found in the text
AliasSearch(s) ==
    LET Found(n) == Some([span |-> Val(WordSearch(s, DATE_ALIASES[n].alias)),
                          offset |-> DATE_ALIASES[n].offset])
    IN IF ~\E n \in 1..Len(DATE_ALIASES) : IsSome(WordSearch(s, DATE_ALIASES[n].alias))
       THEN None
       ELSE Found(CHOOSE k \in 1..Len(DATE_ALIASES) :
                      /\ IsSome(WordSearch(s, DATE_ALIASES[k].alias))
                      /\ \A j \in 1..(k - 1) :
                             ~IsSome(WordSearch(s, DATE_ALIASES[j].alias)))

(***************************************************************************)
(* Category rows and CategoryRepository queries                            *)
(***************************************************************************)
\* the characters in the order of their code points
Collation ==
    <<" ", "+", ",", "-", ".", "/",
      "0", "1", "2", "3", "4", "5", "6", "7", "8", "9",
      "T", "V", "_",
      "a", "b", "c", "d", "e", "f", "g", "h", "i", "j", "k", "l", "m",
      "n", "o", "p", "q", "r", "s", "t", "u", "v", "w", "x", "y", "z">>

CharRank(c) == CHOOSE k \in 1..Len(Collation) : Collation[k] = c

\* a < b on strings
RECURSIVE StrLess(_, _)
StrLess(a, b) ==
    IF Len(b) = 0 THEN FALSE
    ELSE IF Len(a) = 0 THEN TRUE
    ELSE IF a[1] # b[1] THEN CharRank(a[1]) < CharRank(b[1])
    ELSE StrLess(Tail(a), Tail(b))

\* the rows of a set as a list ordered by name, ties by id: ORDER BY name ASC
RECURSIVE OrderByName(_)
OrderByName(rows) ==
    LET Rest(first) == <<first>> \o OrderByName(rows \ {first})
    IN IF rows = {} THEN <<>>
       ELSE Rest(CHOOSE r \in rows : \A q \in rows \ {r} :
                     StrLess(r.name, q.name) \/ (r.name = q.name /\ r.id < q.id))

\* CategoryRepository.list_categories(user_id)
list_categories(table, user_id) == OrderByName({r \in table : r.user_id = user_id})

\* CategoryRepository.get_by_id(user_id, category_id), the lookup the services
\* call: Some(row) when the category of that id belongs to the user, else None
get_by_id(table, user_id, category_id) ==
    IF \E r \in table : r.user_id = user_id /\ r.id = category_id
    THEN Some(CHOOSE r \in table : r.user_id = user_id /\ r.id = category_id)
    ELSE None

\* the candidates in the order of the list, without the sort
LongestFirst_Unsorted(list) == list

\* sorted(categories, key=lambda item: len(item.name), reverse=True): a stable
\* sort, so rows with names of one length keep the order of the list
RECURSIVE LongestFirst(_)
LongestFirst(list) ==
    LET Move(n) == <<list[n]>>
                   \o LongestFirst([k \in 1..(Len(list) - 1) |->
                                       IF k < n THEN list[k] ELSE list[k + 1]])
    IN IF Len(list) = 0 THEN <<>>
       ELSE Move(CHOOSE k \in 1..Len(list) :
                     /\ \A j \in 1..Len(list) : Len(list[j].name) <= Len(list[k].name)
                     /\ \A j \in 1..(k - 1) : Len(list[j].name) < Len(list[k].name))

(***************************************************************************)
(* ExpenseService.parse_smart_message                                      *)
(***************************************************************************)
EmptyDraft == [category |-> None, amount |-> None, spent_at |-> None, description |-> None]

\* ExpenseService._extract_description: the text without the characters of the
\* spans, whitespace collapsed; None when nothing is left
RECURSIVE WithoutSpans(_, _, _)
WithoutSpans(s, spans, k) ==
    IF k > Len(s) THEN <<>>
    ELSE IF \E sp \in spans : sp.from <= k /\ k <= sp.to
         THEN WithoutSpans(s, spans, k + 1)
         ELSE <<s[k]>> \o WithoutSpans(s, spans, k + 1)

\* _extract_description leaving the spans in the text
extract_description_WholeText(text, spans) ==
    LET OrNone(normalized) == IF Len(normalized) = 0 THEN None ELSE Some(normalized)
    IN OrNone(NormalizeSpaces(text))

extract_description(text, spans) ==
    LET OrNone(normalized) == IF Len(normalized) = 0 THEN None ELSE Some(normalized)
    IN OrNone(NormalizeSpaces(WithoutSpans(text, spans, 1)))

\* an entity the extractor found: its value and the spans of the text it took
Entity(value, spans) == [value |-> value, spans |-> spans]

NoEntity == Entity(None, {})

\* Decimal(token.replace(",", ".")) of the match m; None for InvalidOperation
AmountToken(text, m) ==
    IF IsSome(m) THEN DecimalOf(ReplaceComma(Slice(text, Val(m).from, Val(m).to)))
    ELSE None

\* AmountEntity keeping a token whatever its sign
AmountEntity_AnySign(parsed, m) ==
    IF IsSome(parsed) THEN Entity(parsed, {Val(m)}) ELSE NoEntity

\* the token is kept when it is positive
AmountEntity(parsed, m) ==
    IF IsSome(parsed) /\ DecimalPositive(Val(parsed)) THEN Entity(parsed, {Val(m)})
    ELSE NoEntity

\* the amount entity: the first numeric token, kept when it is positive
SmartAmount(text) ==
    AmountEntity(AmountToken(text, AmountSearch(text)), AmountSearch(text))

\* a year of two digits is of this century
FullYear(year) == IF year < 100 THEN year + 2000 ELSE year

\* ExplicitDateEntity without the check against now.date()
ExplicitDateEntity_AnyDate(m, year, clock) ==
    IF ValidDate(year, m.month, m.day)
    THEN Entity(Some(ReplaceDate(clock, MkDate(year, m.month, m.day))),
                {[from |-> m.from, to |-> m.to]})
    ELSE NoEntity

\* the match m read as a date of the year: kept when the date exists and is
\* not later than now.date()
ExplicitDateEntity(m, year, clock) ==
    IF /\ ValidDate(year, m.month, m.day)
       /\ DateLE(MkDate(year, m.month, m.day), clock.date)
    THEN Entity(Some(ReplaceDate(clock, MkDate(year, m.month, m.day))),
                {[from |-> m.from, to |-> m.to]})
    ELSE NoEntity

ExplicitDateOf(m, clock) ==
    IF IsSome(m) THEN ExplicitDateEntity(Val(m), FullYear(Val(m).year), clock)
    ELSE NoEntity

\* the explicit date DD.MM.YYYY or DD.MM.YY
SmartExplicitDate(text, clock) == ExplicitDateOf(DateSearch(text), clock)

\* the explicit date, else the alias m
DateEntity(explicit, m, clock) ==
    IF IsSome(explicit.value) THEN explicit
    ELSE IF IsSome(m)
         THEN Entity(Some(ReplaceDate(clock, MinusDays(clock.date, Val(m).offset))),
                     {Val(m).span})
         ELSE NoEntity

\* the date entity: the explicit date, else the first alias of DATE_ALIASES
SmartDate(text, clock) ==
    DateEntity(SmartExplicitDate(text, clock), AliasSearch(text), clock)

\* the first candidate of the list whose name occurs in the text as a whole word
FirstNamed(text, sorted) ==
    LET Found(n) == Entity(Some(sorted[n]), {Val(WordSearch(text, sorted[n].name))})
    IN IF ~\E n \in 1..Len(sorted) : IsSome(WordSearch(text, sorted[n].name))
       THEN NoEntity
       ELSE Found(CHOOSE k \in 1..Len(sorted) :
                      /\ IsSome(WordSearch(text, sorted[k].name))
                      /\ \A j \in 1..(k - 1) : ~IsSome(WordSearch(text, sorted[j].name)))

\* the category entity: the candidates are tried longest name first
SmartCategory(text, cats) == FirstNamed(text, LongestFirst(cats))

\* the description: what the spans leave of the text, else the whole text
Residue(text, spans) ==
    LET OrNone(normalized) == IF Len(normalized) = 0 THEN None ELSE Some(normalized)
    IN IF spans # {} THEN extract_description(text, spans)
       ELSE OrNone(NormalizeSpaces(text))

SmartDraft(text, amount, spent_at, category) ==
    [category |-> category.value,
     amount |-> amount.value,
     spent_at |-> spent_at.value,
     description |-> Residue(text, amount.spans \cup spent_at.spans \cup category.spans)]

\* parse_smart_message on the stripped text
ParseStripped(text, cats, clock) ==
    IF Len(text) = 0 THEN EmptyDraft
    ELSE SmartDraft(text, SmartAmount(text), SmartDate(text, clock),
                    SmartCategory(text, cats))

parse_smart_message(message_text, cats, clock) ==
    ParseStripped(Strip(message_text), cats, clock)

\* ExpenseService.parse_amount: Some(amount), or None for ValueError
parse_amount(value) ==
    LET Checked(amount) ==
            IF ~IsSome(amount) THEN None
            ELSE IF ~DecimalPositive(Val(amount)) THEN None
            ELSE amount
        Parsed(normalized) ==
            IF Len(normalized) = 0 THEN None ELSE Checked(DecimalOf(normalized))
    IN Parsed(ReplaceComma(Strip(value)))

\* the part of s before its first space, s when it has none
FirstPart(s) ==
    IF \E k \in 1..Len(s) : s[k] = " "
    THEN Slice(s, 1, (CHOOSE k \in 1..Len(s) :
                          s[k] = " " /\ \A j \in 1..(k - 1) : s[j] # " ") - 1)
    ELSE s

\* what follows the first part of s, without the spaces between them
AfterFirstPart(s) == Strip(Slice(s, Len(FirstPart(s)) + 1, Len(s)))

\* ExpenseService._parse_add_command: Some of the amount, the category and the
\* description of "/add <amount> <category> [description]", None for ValueError
parse_add_command(message_text) ==
    LET Unprefixed(payload) ==
            IF Len(payload) >= 4 /\ Slice(payload, 1, 4) = <<"/", "a", "d", "d">>
            THEN Strip(Slice(payload, 5, Len(payload)))
            ELSE payload
        Built(amount, category, rest) ==
            IF ~IsSome(amount) THEN None
            ELSE Some([amount |-> Val(amount),
                       category |-> category,
                       description |-> IF Len(rest) = 0 THEN None ELSE Some(rest)])
        Parts(amount_str, tail) ==
            IF Len(tail) = 0 THEN None
            ELSE Built(parse_amount(amount_str), FirstPart(tail), AfterFirstPart(tail))
        Payload(payload) ==
            IF Len(payload) = 0 THEN None
            ELSE Parts(FirstPart(payload), AfterFirstPart(payload))
    IN Payload(Unprefixed(Strip(message_text)))

(***************************************************************************)
(* The users, the category catalogue and the events the transport delivers *)
(***************************************************************************)
Users == {1, 2}

txt_taxi == <<"t", "a", "x", "i">>

\* the rows of the categories table when the bot starts
InitialCategories ==
    {[id |-> 1, user_id |-> 1, name |-> txt_taxi],
     [id |-> 2, user_id |-> 2, name |-> txt_taxi]}

\* category ids a callback may carry: a keyboard stays on the screen, so the id
\* of a category outlives the category
CategoryIds == {1}

\* dt.datetime.now() when the bot starts: 2024-03-01 10:30:00
StartClock == [date |-> MkDate(2024, 3, 1), hour |-> 10, minute |-> 30]

txt_taxi_2500 == <<"t", "a", "x", "i", " ", "2", "5", "0", "0">>

txt_hello == <<"h", "e", "l", "l", "o">>

txt_taxi_2500_lunch ==
    <<"t", "a", "x", "i", " ", "2", "5", "0", "0", " ", "l", "u", "n", "c", "h">>

txt_2500_vchera_lunch ==
    <<"2", "5", "0", "0", " ", "v", "c", "h", "e", "r", "a", " ", "l", "u", "n", "c", "h">>

txt_taxi_2500_vchera_lunch ==
    <<"t", "a", "x", "i", " ", "2", "5", "0", "0", " ",
      "v", "c", "h", "e", "r", "a", " ", "l", "u", "n", "c", "h">>

txt_2500 == <<"2", "5", "0", "0">>

\* a date of the year after StartClock, as a user types it
txt_01_01_2025 == <<"0", "1", ".", "0", "1", ".", "2", "0", "2", "5">>

txt_0 == <<"0">>

\* a category, a date alias and a word, no amount
txt_taxi_vchera_lunch ==
    <<"t", "a", "x", "i", " ", "v", "c", "h", "e", "r", "a", " ", "l", "u", "n", "c", "h">>

\* the /add command with an amount and a category
txt_add_2500_taxi ==
    <<"/", "a", "d", "d", " ", "2", "5", "0", "0", " ", "t", "a", "x", "i">>

\* texts of the messages users send
Texts ==
    {txt_taxi_2500, txt_hello, txt_taxi_2500_lunch, txt_2500_vchera_lunch,
     txt_taxi_2500_vchera_lunch, txt_2500, txt_01_01_2025, txt_0, txt_add_2500_taxi,
     txt_taxi_vchera_lunch}

\* texts of the /add command: a zero amount, a negative one, a positive one
\* with and without a description, no category, no arguments
AddCommands ==
    {<<"/", "a", "d", "d", " ", "0", " ", "t", "a", "x", "i">>,
     <<"/", "a", "d", "d", " ", "-", "5", " ", "t", "a", "x", "i">>,
     <<"/", "a", "d", "d", " ", "0", ",", "0", "0", " ", "t", "a", "x", "i">>,
     <<"/", "a", "d", "d", " ", "2", "5", "0", "0", " ", "t", "a", "x", "i">>,
     <<"/", "a", "d", "d", " ", "2", ",", "5", " ", "t", "a", "x", "i", " ",
       "l", "u", "n", "c", "h">>,
     <<"/", "a", "d", "d", " ", "2", "5", "0", "0">>,
     <<"/", "a", "d", "d">>}

\* Message.text: Some(text), or None for a message without text (a photo)
Messages == {Some(t) : t \in Texts} \cup {None}

\* AddExpenseAction.date of a "date" callback: the quick picks for today and
\* yesterday, a date of a keyboard from the future, and an unreadable value
CallbackDates(clock) ==
    {DateIso(clock.date),
     DateIso(MinusDays(clock.date, 1)),
     DateIso(MkDate(clock.date.year + 1, 1, 1)),
     <<"?">>}

\* parse_smart_message of the texts users send, for the category lists a user
\* can have and the clock of the bot, evaluated once
ParsedKeys ==
    {<<Strip(text), list_categories(table, user_id), StartClock>> :
        text \in Texts, table \in SUBSET InitialCategories, user_id \in Users}

ParsedTexts ==
    [key \in ParsedKeys |-> parse_smart_message(key[1], key[2], key[3])]

\* expense_service.parse_smart_message(text, categories)
ParsedDraft(text, cats, clock) ==
    IF <<text, cats, clock>> \in ParsedKeys THEN ParsedTexts[<<text, cats, clock>>]
    ELSE parse_smart_message(text, cats, clock)

(***************************************************************************)
(* State                                                                   *)
(***************************************************************************)
VARIABLES
    now,         \* dt.datetime.now(), the local clock
    categories,  \* the categories table
    expenses,    \* the expenses table, in insertion order
    storage,     \* MemoryStorage: the FSM state and data of each user
    tasks,       \* handler coroutines suspended in a service call (a bag)
    last         \* the handler step taken last and the reply it sent

vars == <<now, categories, expenses, storage, tasks, last>>

\* FSMContext.get_state() values; NoState is Python's None (the spec's Idle)
NoState == "None"

choosing_category == "AddExpenseStates:choosing_category"

choosing_date == "AddExpenseStates:choosing_date"

entering_amount == "AddExpenseStates:entering_amount"

entering_description == "AddExpenseStates:entering_description"

\* FSM data: every key the add flow writes; None is an absent key
EmptyData ==
    [category_id |-> None, category_name |-> None, spent_at |-> None,
     amount |-> None, prefilled_description |-> None]

\* FSMContext.clear(): no state, no data
Cleared == [state |-> NoState, data |-> EmptyData]

\* a reply: to whom, by which handler, what (kind), and the values it shows
Reply(user, handler, kind) ==
    [to |-> user, by |-> handler, kind |-> kind,
     amount |-> None, category |-> None, description |-> None]

\* a step that sends nothing
NoReply == Reply(0, "", "none")

(***************************************************************************)
(* ExpenseService.add_expense and its rendering helpers                    *)
(***************************************************************************)
\* the keyword-only parameters of ExpenseRepository.add_expense
RepositoryAddExpenseParams == {"user_id", "amount", "category", "description", "spent_at"}

\* the keywords ExpenseService.add_expense passes to it
ServiceAddExpenseKeywords == {"user_id", "amount", "category_id", "description", "spent_at"}

\* ExpenseRepository.add_expense(**keywords): Python binds the call only when
\* the keywords are the parameters of the function, and raises TypeError if not
RepositoryAddExpenseBinds(keywords) == keywords = RepositoryAddExpenseParams

\* ExpenseService._format_amount: two places (ROUND_HALF_EVEN), an integer
\* without a fraction, no trailing zero
format_amount(d) ==
    LET Rounded(q, r, unit) ==
            IF 2 * r > unit \/ (2 * r = unit /\ q % 2 = 1) THEN q + 1 ELSE q
        Scaled(unit) == Rounded(d.coef \div unit, d.coef % unit, unit)
        Shown(cents) ==
            StrOfNat(cents \div 100)
            \o (IF cents % 100 = 0 THEN <<>>
                ELSE IF cents % 10 = 0 THEN <<".", Digits[((cents % 100) \div 10) + 1]>>
                ELSE <<".">> \o Pad(cents % 100, 2))
    IN Shown(IF d.places <= 2 THEN d.coef * Pow10(2 - d.places)
             ELSE Scaled(Pow10(d.places - 2)))

\* ExpenseService.add_expense with category_id given: what it raises ("" when
\* it returns), the row it inserts and the category the confirmation names
add_expense(table, kwargs) ==
    LET Found(category_obj) ==
            IF ~IsSome(category_obj)
            THEN [raised |-> "ValueError", row |-> None, category |-> None]
            ELSE IF ~RepositoryAddExpenseBinds(ServiceAddExpenseKeywords)
                 THEN [raised |-> "TypeError", row |-> None, category |-> None]
                 ELSE [raised |-> "",
                       row |-> Some([user_id |-> kwargs.user_id,
                                     amount |-> kwargs.amount,
                                     category_id |-> Val(category_obj).id,
                                     description |-> kwargs.description,
                                     spent_at |-> kwargs.spent_at]),
                       category |-> category_obj]
    IN Found(get_by_id(table, kwargs.user_id, kwargs.category_id))

(***************************************************************************)
(* Suspended handlers                                                      *)
(***************************************************************************)
\* a handler coroutine waiting for the result of a service call: pc names the
\* call; the other fields are the locals it resumes with
Task(handler, user, pc) ==
    [handler |-> handler, user |-> user, pc |-> pc,
     text |-> <<>>,        \* smart_expense_input: the message text
     cats |-> <<>>,        \* the result of list_categories
     category |-> None,    \* the result of get_category / the recorded category
     kwargs |-> None,      \* the arguments of add_expense
     raised |-> ""]        \* the exception the call raises, "" when it returns

\* what one step of a handler does: the user's session after it, the reply it
\* sends, the call it suspends in (if any) and the expense row inserted (if any)
Step(session, reply, task, row) ==
    [session |-> session, reply |-> reply, task |-> task, row |-> row]

\* the prefilled description never read back from the FSM data
Prefilled_Ignored(data) == None

\* the prefilled description a handler reads back from the FSM data
Prefilled(data) ==
    LET OrNone(stripped) == IF Len(stripped) > 0 THEN Some(stripped) ELSE None
    IN IF IsSome(data.prefilled_description) THEN OrNone(Strip(Val(data.prefilled_description)))
       ELSE None

\* data.get("amount") read under a key the session never holds
HasAmount_Never(data) == FALSE

\* truth value of data.get("amount")
HasAmount(data) == IsSome(data.amount) /\ Len(Val(data.amount)) > 0

\* _parse_spent_at_date(data.get("spent_at")): Some(date) or None
parse_spent_at_date(value) ==
    LET DateOf(spent_at) == IF IsSome(spent_at) THEN Some(Val(spent_at).date) ELSE None
    IN IF ~IsSome(value) \/ Len(Val(value)) = 0 THEN None
       ELSE DateOf(DatetimeFromIso(Val(value)))

\* _combine_with_current_time(date_value).isoformat()
combine_with_current_time(date_value, clock) == DatetimeIso(ReplaceDate(clock, date_value))

\* finalize_expense keeping the session it cannot finalize
finalize_expense_KeepsSession(handler, user_id, session, description, table) ==
    Step(session, Reply(user_id, handler, "finalize_failed"), None, None)

\* finalize_expense up to the call of add_expense: it clears the session and
\* raises ValueError when a required key is missing or the date is unreadable;
\* otherwise the handler suspends in ExpenseService.add_expense
finalize_expense(handler, user_id, session, description, table) ==
    LET Suspended(kwargs, result) ==
            Step(session,
                 NoReply,
                 Some([Task(handler, user_id, "add_expense") EXCEPT
                          !.kwargs = Some(kwargs),
                          !.category = result.category,
                          !.raised = result.raised]),
                 result.row)
        Call(kwargs) == Suspended(kwargs, add_expense(table, kwargs))
        Dated(data, spent_at) ==
            IF ~IsSome(spent_at)
            THEN Step(Cleared, Reply(user_id, handler, "spent_at_unreadable"), None, None)
            ELSE Call([user_id |-> user_id,
                       amount |-> Val(DecimalOf(Val(data.amount))),
                       category |-> Val(data.category_name),
                       category_id |-> Val(data.category_id),
                       description |-> description,
                       spent_at |-> Val(spent_at)])
        Checked(data) ==
            IF ~(/\ IsSome(data.category_id) /\ IsSome(data.category_name)
                 /\ IsSome(data.amount) /\ IsSome(data.spent_at))
            THEN Step(Cleared, Reply(user_id, handler, "finalize_failed"), None, None)
            ELSE Dated(data, DatetimeFromIso(Val(data.spent_at)))
    IN Checked(session.data)

\* the rest of finalize_expense and of its caller once add_expense is over:
\* on return the session is cleared and the confirmation sent; ValueError is
\* caught by the caller and shown; any other exception leaves the handler
finalize_resume(t, session) ==
    IF t.raised = ""
    THEN Step(Cleared,
              [Reply(t.user, t.handler, "success") EXCEPT
                  !.amount = Some(format_amount(Val(t.kwargs).amount)),
                  !.category = Some(Val(t.category).name),
                  !.description = Val(t.kwargs).description],
              None, None)
    ELSE IF t.raised = "ValueError"
         THEN Step(session, Reply(t.user, t.handler, "category_not_found"), None, None)
         ELSE Step(session, NoReply, None, None)

(***************************************************************************)
(* The routers: the first handler whose filters accept a message takes it  *)
(***************************************************************************)
StartsWith(s, prefix) ==
    Len(s) >= Len(prefix) /\ \A k \in 1..Len(prefix) : s[k] = prefix[k]

\* Command(name): the text is "/name" or begins with "/name "
IsCommand(text, name) ==
    /\ IsSome(text)
    /\ StartsWith(Val(text), <<"/">> \o name)
    /\ CharAt(Val(text), Len(name) + 2) \in {"", " "}

\* setup_routers includes start.router, then add.router, then the others; a
\* router offers a message to its handlers in the order they are registered.
\* F.text accepts every message with a text, so smart_expense_input, the first
\* message handler of add.router, takes every text that is not /start.
Route(text, state) ==
    IF IsCommand(text, <<"s", "t", "a", "r", "t">>) THEN "cmd_start"
    ELSE IF IsSome(text) /\ Len(Val(text)) > 0 THEN "smart_expense_input"
    ELSE IF IsCommand(text, <<"a", "d", "d">>) THEN "cmd_add"
    ELSE IF state = choosing_category THEN "awaiting_category_selection"
    ELSE IF state = entering_amount THEN "amount_received"
    ELSE IF state = entering_description THEN "description_received"
    ELSE IF state = choosing_date THEN "manual_date_entered"
    ELSE "unhandled"

\* the routing of the messages users send, evaluated once
RouteTable ==
    [m \in Messages,
     state \in {NoState, choosing_category, choosing_date, entering_amount,
                entering_description} |-> Route(m, state)]

\* the handler that takes the message m of a user whose FSM state is state
Routed(m, state) == RouteTable[m, state]

\* message.text or ""
TextOrEmpty(text) == IF IsSome(text) THEN Val(text) ELSE <<>>

\* (message.text or "").strip() of the messages users send, evaluated once
StripTable == [m \in Messages |-> Strip(TextOrEmpty(m))]

\* (message.text or "").strip()
StrippedText(text) ==
    IF text \in Messages THEN StripTable[text] ELSE Strip(TextOrEmpty(text))

(***************************************************************************)
(* Handlers of app/handlers/add.py, one operator per stretch of code that  *)
(* runs without suspending                                                 *)
(***************************************************************************)
\* smart_expense_input up to list_categories: commands and empty texts are
\* dropped, and so is every text while an FSM state is set
smart_expense_input(user_id, text, session, table) ==
    LET Stripped(stripped) ==
            IF Len(stripped) = 0 \/ stripped[1] = "/"
            THEN Step(session, NoReply, None, None)
            ELSE IF session.state # NoState
                 THEN Step(session, NoReply, None, None)
                 ELSE Step(session,
                           NoReply,
                           Some([Task("smart_expense_input", user_id, "list_categories")
                                    EXCEPT !.text = stripped,
                                           !.cats = list_categories(table, user_id)]),
                           None)
    IN Stripped(StrippedText(text))

\* the FSM data smart_expense_input writes for a draft
DraftData(parsed) ==
    [category_id |-> IF IsSome(parsed.category) THEN Some(Val(parsed.category).id) ELSE None,
     category_name |-> IF IsSome(parsed.category) THEN Some(Val(parsed.category).name)
                       ELSE None,
     spent_at |-> IF IsSome(parsed.spent_at) THEN Some(DatetimeIso(Val(parsed.spent_at)))
                  ELSE None,
     amount |-> IF IsSome(parsed.amount) THEN Some(DecimalStr(Val(parsed.amount))) ELSE None,
     prefilled_description |->
         IF /\ IsSome(parsed.description)
            /\ ~(IsSome(parsed.category) /\ IsSome(parsed.spent_at) /\ IsSome(parsed.amount))
         THEN parsed.description
         ELSE None]

\* smart_expense_input storing the draft without its amount
SmartMerge_AmountDropped(session, parsed) ==
    [state |-> NoState, data |-> [DraftData(parsed) EXCEPT !.amount = None]]

\* state.clear() and state.update_data(**data) of smart_expense_input
SmartMerge(session, parsed) == [state |-> NoState, data |-> DraftData(parsed)]

\* smart_expense_input from state.set_state on: merged is the session after
\* state.clear() and state.update_data(**data); the first field the draft
\* lacks is asked for, and a draft with a description is finalized at once
SmartGuided(t, parsed, merged, table) ==
    IF ~IsSome(parsed.category)
    THEN Step([merged EXCEPT !.state = choosing_category],
              Reply(t.user, t.handler, "choose_category"), None, None)
    ELSE IF ~IsSome(parsed.spent_at)
    THEN Step([merged EXCEPT !.state = choosing_date],
              Reply(t.user, t.handler, "choose_date"), None, None)
    ELSE IF ~IsSome(parsed.amount)
    THEN Step([merged EXCEPT !.state = entering_amount],
              Reply(t.user, t.handler, "enter_amount"), None, None)
    ELSE IF IsSome(parsed.description)
    THEN finalize_expense(t.handler, t.user, [merged EXCEPT !.state = entering_description],
                          parsed.description, table)
    ELSE Step([merged EXCEPT !.state = entering_description],
              Reply(t.user, t.handler, "enter_description"), None, None)

\* smart_expense_input without the fallback answer: every text enters the flow
SmartBranch_NoFallback(t, session, parsed, merged, table) ==
    IF Len(t.cats) = 0
    THEN Step(Cleared, Reply(t.user, t.handler, "create_category"), None, None)
    ELSE SmartGuided(t, parsed, merged, table)

\* smart_expense_input without the check for a user who has no category
SmartBranch_NoCategoryCheck(t, session, parsed, merged, table) ==
    IF ~IsSome(parsed.category) /\ ~IsSome(parsed.spent_at) /\ ~IsSome(parsed.amount)
    THEN Step(session, Reply(t.user, t.handler, "fallback"), None, None)
    ELSE SmartGuided(t, parsed, merged, table)

\* smart_expense_input once the text is parsed: the fallback answer to a text
\* with nothing in it, then the answer to a user without categories
SmartBranch(t, session, parsed, merged, table) ==
    IF ~IsSome(parsed.category) /\ ~IsSome(parsed.spent_at) /\ ~IsSome(parsed.amount)
    THEN Step(session, Reply(t.user, t.handler, "fallback"), None, None)
    ELSE IF Len(t.cats) = 0
    THEN Step(Cleared, Reply(t.user, t.handler, "create_category"), None, None)
    ELSE SmartGuided(t, parsed, merged, table)

SmartParsed(t, session, parsed, table) ==
    SmartBranch(t, session, parsed, SmartMerge(session, parsed), table)

\* smart_expense_input from the result of list_categories on
smart_expense_input_resume(t, session, clock, table) ==
    SmartParsed(t, session, ParsedDraft(t.text, t.cats, clock), table)

\* start_add_expense_flow up to list_categories: the session is cleared first
start_add_expense_flow(handler, user_id, table) ==
    Step(Cleared,
         NoReply,
         Some([Task(handler, user_id, "list_categories") EXCEPT
                  !.cats = list_categories(table, user_id)]),
         None)

\* start_add_expense_flow asking for the category without state.set_state
start_add_expense_flow_resume_NoState(t, session) ==
    IF Len(t.cats) = 0
    THEN Step(session, Reply(t.user, t.handler, "create_category"), None, None)
    ELSE Step(session, Reply(t.user, t.handler, "choose_category"), None, None)

\* start_add_expense_flow from the result of list_categories on
start_add_expense_flow_resume(t, session) ==
    IF Len(t.cats) = 0
    THEN Step(session, Reply(t.user, t.handler, "create_category"), None, None)
    ELSE Step([session EXCEPT !.state = choosing_category],
              Reply(t.user, t.handler, "choose_category"), None, None)

\* the step after the date without the look at the amount: the description
\* is asked for at once
AfterDate_SkipsAmount(handler, user_id, session, table) ==
    Step([session EXCEPT !.state = entering_description],
         Reply(user_id, handler, "enter_description"), None, None)

\* the branch category_chosen, date_selected, manual_date_entered share once
\* spent_at is known: with an amount the description step (finalizing at once
\* with a prefilled description), without one the amount step
AfterDate(handler, user_id, session, table) ==
    LET Described(prefilled) ==
            IF IsSome(prefilled)
            THEN finalize_expense(handler, user_id,
                                  [session EXCEPT !.state = entering_description],
                                  prefilled, table)
            ELSE Step([session EXCEPT !.state = entering_description],
                      Reply(user_id, handler, "enter_description"), None, None)
    IN IF HasAmount(session.data)
       THEN Described(Prefilled(session.data))
       ELSE Step([session EXCEPT !.state = entering_amount],
                 Reply(user_id, handler, "enter_amount"), None, None)

\* category_chosen up to get_category (callback_data.category_id or 0)
category_chosen(user_id, category_id, session, table) ==
    Step(session,
         NoReply,
         Some([Task("category_chosen", user_id, "get_category") EXCEPT
                  !.category = get_by_id(table, user_id, category_id)]),
         None)

\* category_chosen without its state.update_data: the chosen category is lost
ChosenMerge_Lost(session, category) == session

\* state.update_data(category_id=..., category_name=...) of category_chosen
ChosenMerge(session, category) ==
    [session EXCEPT !.data.category_id = Some(category.id),
                    !.data.category_name = Some(category.name)]

\* category_chosen clearing the session when the category is not found
category_chosen_resume_ClearsOnMiss(t, session, table) ==
    IF ~IsSome(t.category)
    THEN Step(Cleared, Reply(t.user, t.handler, "category_not_found"), None, None)
    ELSE Step([ChosenMerge(session, Val(t.category)) EXCEPT !.state = choosing_date],
              Reply(t.user, t.handler, "choose_date"), None, None)

\* category_chosen from the result of get_category on
category_chosen_resume(t, session, table) ==
    LET Merged(merged) ==
            IF IsSome(parse_spent_at_date(merged.data.spent_at))
            THEN AfterDate(t.handler, t.user, merged, table)
            ELSE Step([merged EXCEPT !.state = choosing_date],
                      Reply(t.user, t.handler, "choose_date"), None, None)
    IN IF ~IsSome(t.category)
       THEN Step(session, Reply(t.user, t.handler, "category_not_found"), None, None)
       ELSE Merged(ChosenMerge(session, Val(t.category)))

\* date_selected and manual_date_entered without the check against today
DateAccepted_AnyDate(handler, user_id, date_value, session, clock, table) ==
    AfterDate(handler, user_id,
              [session EXCEPT
                  !.data.spent_at = Some(combine_with_current_time(date_value, clock))],
              table)

\* what date_selected and manual_date_entered do with a date they could read
DateAccepted(handler, user_id, date_value, session, clock, table) ==
    IF ~DateLE(date_value, clock.date)
    THEN Step(session, Reply(user_id, handler, "future_date"), None, None)
    ELSE AfterDate(handler, user_id,
                   [session EXCEPT
                       !.data.spent_at = Some(combine_with_current_time(date_value, clock))],
                   table)

\* date_selected(callback_data.date)
date_selected(user_id, date, session, clock, table) ==
    LET Selected(selected) ==
            IF ~IsSome(selected)
            THEN Step(session, Reply(user_id, "date_selected", "date_unreadable"), None, None)
            ELSE DateAccepted("date_selected", user_id, Val(selected), session, clock, table)
    IN Selected(DateFromIso(date))

\* dt.datetime.strptime(text, "%d.%m.%Y").date(): Some(date) or None
strptime_dmy(text) ==
    LET Matched(m) ==
            IF /\ IsSome(m)
               /\ Val(m).from = 1 /\ Val(m).to = Len(text)
               /\ Val(m).year >= 1000
               /\ ValidDate(Val(m).year, Val(m).month, Val(m).day)
            THEN Some(MkDate(Val(m).year, Val(m).month, Val(m).day))
            ELSE None
    IN Matched(DateSearch(text))

\* manual_date_entered(message.text)
manual_date_entered(user_id, text, session, clock, table) ==
    LET h == "manual_date_entered"
        Entered(entered) ==
            IF ~IsSome(entered)
            THEN Step(session, Reply(user_id, h, "date_unreadable"), None, None)
            ELSE DateAccepted(h, user_id, Val(entered), session, clock, table)
        Stripped(stripped) ==
            IF Len(stripped) = 0
            THEN Step(session, Reply(user_id, h, "date_input_hint"), None, None)
            ELSE Entered(strptime_dmy(stripped))
    IN Stripped(StrippedText(text))

\* amount_received(message.text)
amount_received(user_id, text, session, table) ==
    LET h == "amount_received"
        Described(merged, prefilled) ==
            IF IsSome(prefilled)
            THEN finalize_expense(h, user_id, merged, prefilled, table)
            ELSE Step(merged, Reply(user_id, h, "enter_description"), None, None)
        Merged(merged) == Described(merged, Prefilled(merged.data))
        Parsed(amount) ==
            IF ~IsSome(amount)
            THEN Step(session, Reply(user_id, h, "amount_invalid"), None, None)
            ELSE Merged([session EXCEPT !.data.amount = Some(DecimalStr(Val(amount))),
                                        !.state = entering_description])
    IN Parsed(parse_amount(TextOrEmpty(text)))

\* description_received(message.text): (message.text or "").strip() or None
description_received(user_id, text, session, table) ==
    LET OrNone(stripped) == IF Len(stripped) = 0 THEN None ELSE Some(stripped)
    IN finalize_expense("description_received", user_id, session,
                        OrNone(StrippedText(text)), table)

\* skip_description
skip_description(user_id, session, table) ==
    finalize_expense("skip_description", user_id, session, None, table)

\* cancel_addition with state.set_state(None) in place of state.clear()
cancel_addition_KeepsData(user_id, session) ==
    Step([session EXCEPT !.state = NoState],
         Reply(user_id, "cancel_addition", "cancelled"), None, None)

\* cancel_addition
cancel_addition(user_id, session) ==
    Step(Cleared, Reply(user_id, "cancel_addition", "cancelled"), None, None)

\* awaiting_category_selection
awaiting_category_selection(user_id, session) ==
    Step(session, Reply(user_id, "awaiting_category_selection", "use_buttons"), None, None)

(***************************************************************************)
(* callback_delete of app/handlers/categories.py                           *)
(***************************************************************************)
\* CategoryService.delete_category: the table after it, "ValueError" when the
\* category is not one of the user's
delete_category(table, user_id, category_id) ==
    LET Found(category) ==
            IF IsSome(category)
            THEN [raised |-> "", table |-> table \ {Val(category)}]
            ELSE [raised |-> "ValueError", table |-> table]
    IN Found(get_by_id(table, user_id, category_id))

\* callback_delete with state.set_state(None) in place of state.clear()
callback_delete_resume_KeepsData(t, session) ==
    IF t.raised = ""
    THEN Step([session EXCEPT !.state = NoState],
              Reply(t.user, "callback_delete", "category_deleted"), None, None)
    ELSE Step(session, Reply(t.user, "callback_delete", "category_not_found"), None, None)

\* callback_delete from the return of delete_category on: the FSM is cleared
\* after a deletion; after ValueError only the alert is shown
callback_delete_resume(t, session) ==
    IF t.raised = ""
    THEN Step(Cleared, Reply(t.user, "callback_delete", "category_deleted"), None, None)
    ELSE Step(session, Reply(t.user, "callback_delete", "category_not_found"), None, None)

(***************************************************************************)
(* The state machine                                                       *)
(***************************************************************************)
\* handler coroutines that may be suspended at the same time
MaxInFlight == 2

\* the users whose events are delivered
Senders == {1}

Init ==
    /\ now = StartClock
    /\ categories = InitialCategories
    /\ expenses = <<>>
    /\ storage = [u \in Users |-> Cleared]
    /\ tasks = EmptyBag
    /\ last = NoReply

\* Commit with a storage that keeps one session for all users
Commit_OneSession(u, step, done) ==
    /\ storage' = [v \in Users |-> step.session]
    /\ last' = step.reply
    /\ tasks' = IF IsSome(step.task)
                THEN (tasks (-) done) (+) SetToBag({Val(step.task)})
                ELSE tasks (-) done
    /\ BagCardinality(tasks') <= MaxInFlight
    /\ expenses' = IF IsSome(step.row) THEN Append(expenses, Val(step.row)) ELSE expenses
    /\ UNCHANGED <<now, categories>>

\* the effect of a handler step of user u: done is the bag of the coroutine
\* that ran (empty for a new event)
Commit(u, step, done) ==
    /\ storage' = [storage EXCEPT ![u] = step.session]
    /\ last' = step.reply
    /\ tasks' = IF IsSome(step.task)
                THEN (tasks (-) done) (+) SetToBag({Val(step.task)})
                ELSE tasks (-) done
    /\ BagCardinality(tasks') <= MaxInFlight
    /\ expenses' = IF IsSome(step.row) THEN Append(expenses, Val(step.row)) ELSE expenses
    /\ UNCHANGED <<now, categories>>

\* a message with a text arrives; the texts the handler drops all take the
\* same step
SmartExpenseInput(u) ==
    \E step \in {smart_expense_input(u, m, storage[u], categories) :
                    m \in {x \in Messages :
                              Routed(x, storage[u].state) = "smart_expense_input"}} :
        Commit(u, step, EmptyBag)

SmartExpenseInputResume ==
    \E t \in BagToSet(tasks) :
        /\ t.handler = "smart_expense_input" /\ t.pc = "list_categories"
        /\ Commit(t.user, smart_expense_input_resume(t, storage[t.user], now, categories),
                  SetToBag({t}))

\* a message without a text arrives
AwaitingCategorySelection(u) ==
    /\ storage[u].state = choosing_category
    /\ \E m \in Messages :
          /\ Routed(m, storage[u].state) = "awaiting_category_selection"
          /\ Commit(u, awaiting_category_selection(u, storage[u]), EmptyBag)

AmountReceived(u) ==
    /\ storage[u].state = entering_amount
    /\ \E m \in Messages :
          /\ Routed(m, storage[u].state) = "amount_received"
          /\ Commit(u, amount_received(u, m, storage[u], categories), EmptyBag)

DescriptionReceived(u) ==
    /\ storage[u].state = entering_description
    /\ \E m \in Messages :
          /\ Routed(m, storage[u].state) = "description_received"
          /\ Commit(u, description_received(u, m, storage[u], categories), EmptyBag)

ManualDateEntered(u) ==
    /\ storage[u].state = choosing_date
    /\ \E m \in Messages :
          /\ Routed(m, storage[u].state) = "manual_date_entered"
          /\ Commit(u, manual_date_entered(u, m, storage[u], now, categories), EmptyBag)

\* callbacks: AddExpenseAction filters on the action and, for choose, date and
\* skip_description, on the FSM state
CategoryChosen(u) ==
    /\ storage[u].state = choosing_category
    /\ \E id \in CategoryIds :
          Commit(u, category_chosen(u, id, storage[u], categories), EmptyBag)

CategoryChosenResume ==
    \E t \in BagToSet(tasks) :
        /\ t.pc = "get_category"
        /\ Commit(t.user, category_chosen_resume(t, storage[t.user], categories),
                  SetToBag({t}))

DateSelected(u) ==
    /\ storage[u].state = choosing_date
    /\ \E d \in CallbackDates(now) :
          Commit(u, date_selected(u, d, storage[u], now, categories), EmptyBag)

SkipDescription(u) ==
    /\ storage[u].state = entering_description
    /\ Commit(u, skip_description(u, storage[u], categories), EmptyBag)

FinalizeResume ==
    \E t \in BagToSet(tasks) :
        /\ t.pc = "add_expense"
        /\ Commit(t.user, finalize_resume(t, storage[t.user]), SetToBag({t}))

AddMoreRequested(u) ==
    /\ u \in Users
    /\ Commit(u, start_add_expense_flow("add_more_requested", u, categories), EmptyBag)

AddMoreRequestedResume ==
    \E t \in BagToSet(tasks) :
        /\ t.handler = "add_more_requested" /\ t.pc = "list_categories"
        /\ Commit(t.user, start_add_expense_flow_resume(t, storage[t.user]), SetToBag({t}))

CancelAddition(u) ==
    /\ u \in Users
    /\ Commit(u, cancel_addition(u, storage[u]), EmptyBag)

\* callback_delete up to the return of delete_category
CallbackDelete(u) ==
    \E id \in CategoryIds :
        \E result \in {delete_category(categories, u, id)} :
            /\ categories' = result.table
            /\ expenses' = SelectSeq(expenses,
                                     LAMBDA row : IsSome(get_by_id(result.table, row.user_id,
                                                                   row.category_id)))
            /\ tasks' = tasks (+) SetToBag({[Task("callback_delete", u, "delete_category")
                                               EXCEPT !.raised = result.raised]})
            /\ BagCardinality(tasks') <= MaxInFlight
            /\ last' = NoReply
            /\ UNCHANGED <<now, storage>>

CallbackDeleteResume ==
    \E t \in BagToSet(tasks) :
        /\ t.pc = "delete_category"
        /\ Commit(t.user, callback_delete_resume(t, storage[t.user]), SetToBag({t}))

Next ==
    \/ \E u \in Senders : SmartExpenseInput(u)
    \/ SmartExpenseInputResume
    \/ \E u \in Senders : AwaitingCategorySelection(u)
    \/ \E u \in Senders : AmountReceived(u)
    \/ \E u \in Senders : DescriptionReceived(u)
    \/ \E u \in Senders : ManualDateEntered(u)
    \/ \E u \in Senders : CategoryChosen(u)
    \/ CategoryChosenResume
    \/ \E u \in Senders : DateSelected(u)
    \/ \E u \in Senders : SkipDescription(u)
    \/ FinalizeResume
    \/ \E u \in Senders : AddMoreRequested(u)
    \/ AddMoreRequestedResume
    \/ \E u \in Senders : CancelAddition(u)
    \/ \E u \in Senders : CallbackDelete(u)
    \/ CallbackDeleteResume

Spec == Init /\ [][Next]_vars

(***************************************************************************)
(* finalize_expense on its own: the handlers of entering_description run   *)
(* on FSM data whichever keys they hold                                    *)
(***************************************************************************)
\* FSM data finalize_expense may be given: each required key present or
\* missing, and a spent_at that is not an ISO datetime
SessionData ==
    [category_id : {None, Some(1)},
     category_name : {None, Some(txt_taxi)},
     spent_at : {None, Some(DatetimeIso(StartClock)), Some(<<"?">>)},
     amount : {None, Some(txt_2500)},
     prefilled_description : {None, Some(txt_hello)}]

FinalizeInit ==
    /\ now = StartClock
    /\ categories = InitialCategories
    /\ expenses = <<>>
    /\ \E data \in SessionData :
          storage = [u \in Users |->
                        IF u \in Senders
                        THEN [state |-> entering_description, data |-> data]
                        ELSE Cleared]
    /\ tasks = EmptyBag
    /\ last = NoReply

\* the events that finalize, and the free texts and the Cancel that may follow
FinalizeNext ==
    \/ \E u \in Senders : DescriptionReceived(u)
    \/ \E u \in Senders : SkipDescription(u)
    \/ FinalizeResume
    \/ \E u \in Senders : SmartExpenseInput(u)
    \/ SmartExpenseInputResume
    \/ \E u \in Senders : CancelAddition(u)

FinalizeSpec == FinalizeInit /\ [][FinalizeNext]_vars

(***************************************************************************)
(* Two users at once: the events of both users are delivered and their     *)
(* handlers interleave at the service calls                                *)
(***************************************************************************)
IsolationNext ==
    \/ \E u \in Users : SmartExpenseInput(u)
    \/ SmartExpenseInputResume
    \/ \E u \in Users : CategoryChosen(u)
    \/ CategoryChosenResume
    \/ \E u \in Users : DateSelected(u)
    \/ \E u \in Users : SkipDescription(u)
    \/ FinalizeResume
    \/ \E u \in Users : CancelAddition(u)

IsolationSpec == Init /\ [][IsolationNext]_vars

(***************************************************************************)
(* parse_smart_message on its own: a free text of a few words is handed to *)
(* smart_expense_input of a user with one of several catalogues            *)
(***************************************************************************)
w_vchera == <<"v", "c", "h", "e", "r", "a">>

w_t2 == <<"t", "2">>

w_lunch == <<"l", "u", "n", "c", "h">>

w_12_50 == <<"1", "2", ".", "5", "0">>

w_12c50 == <<"1", "2", ",", "5", "0">>

w_0_5 == <<"0", ".", "5">>

w_0c5 == <<"0", ",", "5">>

\* the words a text is made of: category names, a date alias, amounts with
\* and without a fraction, a date after StartClock and a word that is none
ExtractWords ==
    {txt_taxi, w_vchera, w_t2, w_lunch, txt_2500, w_12_50, w_12c50, w_0_5, w_0c5,
     txt_01_01_2025}

\* the words of a text at most
MaxWords == 3

\* " ".join(ws)
RECURSIVE JoinWords(_)
JoinWords(ws) ==
    IF Len(ws) = 0 THEN <<>>
    ELSE IF Len(ws) = 1 THEN ws[1]
    ELSE ws[1] \o <<" ">> \o JoinWords(Tail(ws))

\* the lists of words users send
WordLists == UNION {[1..n -> ExtractWords] : n \in 1..MaxWords}

\* the categories tables: one category, two categories named by plain words,
\* a table with a category named like a date alias and a table with a
\* category named with a digit
ExtractCatalogues ==
    {{[id |-> 1, user_id |-> 1, name |-> txt_taxi]},
     {[id |-> 1, user_id |-> 1, name |-> txt_taxi],
      [id |-> 3, user_id |-> 1, name |-> w_lunch]},
     {[id |-> 1, user_id |-> 1, name |-> txt_taxi],
      [id |-> 3, user_id |-> 1, name |-> w_vchera]},
     {[id |-> 1, user_id |-> 1, name |-> txt_taxi],
      [id |-> 4, user_id |-> 1, name |-> w_t2]}}

\* smart_expense_input of user 1 has its categories and is about to parse
ExtractInit ==
    /\ now = StartClock
    /\ categories \in ExtractCatalogues
    /\ expenses = <<>>
    /\ storage = [u \in Users |-> Cleared]
    /\ \E ws \in WordLists :
          tasks = SetToBag({[Task("smart_expense_input", 1, "list_categories") EXCEPT
                                !.text = JoinWords(ws),
                                !.cats = list_categories(categories, 1)]})
    /\ last = NoReply

ExtractNext == SmartExpenseInputResume

ExtractSpec == ExtractInit /\ [][ExtractNext]_vars

(***************************************************************************)
(* Callback buttons pressed in any step: the router hands a callback to    *)
(* the first handler whose action and state filters accept it              *)
(***************************************************************************)
\* the buttons of the guided flow that choose, and Cancel
ChoiceActions == {"choose", "date", "skip_description", "cancel"}

\* the callback filters without the FSM state: the action alone decides
CallbackRoute_AnyState(action, state) ==
    IF action = "choose" THEN "category_chosen"
    ELSE IF action = "date" THEN "date_selected"
    ELSE IF action = "skip_description" THEN "skip_description"
    ELSE IF action = "cancel" THEN "cancel_addition"
    ELSE "unhandled"

\* the callback handlers of add.router in the order they are registered, each
\* with its AddExpenseAction filter and its state filter; a callback no
\* filter accepts is not handled
CallbackRoute(action, state) ==
    IF action = "choose" /\ state = choosing_category THEN "category_chosen"
    ELSE IF action = "skip_description" /\ state = entering_description
         THEN "skip_description"
    ELSE IF action = "cancel" THEN "cancel_addition"
    ELSE IF action = "date" /\ state = choosing_date THEN "date_selected"
    ELSE "unhandled"

\* what the dispatcher does with the callback (action, category_id, date) of
\* user u: the first step of the handler that takes it, nothing when none does
CallbackDispatched(u, action, category_id, date) ==
    CASE CallbackRoute(action, storage[u].state) = "category_chosen"
             -> category_chosen(u, category_id, storage[u], categories)
      [] CallbackRoute(action, storage[u].state) = "date_selected"
             -> date_selected(u, date, storage[u], now, categories)
      [] CallbackRoute(action, storage[u].state) = "skip_description"
             -> skip_description(u, storage[u], categories)
      [] CallbackRoute(action, storage[u].state) = "cancel_addition"
             -> cancel_addition(u, storage[u])
      [] OTHER -> Step(storage[u], NoReply, None, None)

\* a button of any keyboard, fresh or stale, is pressed by u
CallbackDelivered(u) ==
    \E step \in {CallbackDispatched(u, action, id, d) :
                     action \in ChoiceActions, id \in CategoryIds, d \in CallbackDates(now)} :
        Commit(u, step, EmptyBag)

ChoiceNext ==
    \/ \E u \in Senders : SmartExpenseInput(u)
    \/ SmartExpenseInputResume
    \/ \E u \in Senders : CallbackDelivered(u)
    \/ CategoryChosenResume
    \/ FinalizeResume

ChoiceSpec == Init /\ [][ChoiceNext]_vars

(***************************************************************************)
(* Dates in a free text: explicit dates and the date aliases               *)
(***************************************************************************)
w_segodnya == <<"s", "e", "g", "o", "d", "n", "y", "a">>

w_pozavchera == <<"p", "o", "z", "a", "v", "c", "h", "e", "r", "a">>

\* a date before StartClock
w_15_02_2024 == <<"1", "5", ".", "0", "2", ".", "2", "0", "2", "4">>

\* the words of a text with dates: a category name, the three date aliases,
\* a date before and a date after StartClock and a word that is none
DateWords ==
    {txt_taxi, w_segodnya, w_vchera, w_pozavchera, w_15_02_2024, txt_01_01_2025,
     w_lunch}

\* the lists of at most MaxWords words taken from words
WordListsOf(words) == UNION {[1..n -> words] : n \in 1..MaxWords}

\* smart_expense_input of user 1 has the categories of one of the tables and
\* is about to parse a text made of some of the words
ParsingStarts(words, tables) ==
    /\ now = StartClock
    /\ categories \in tables
    /\ expenses = <<>>
    /\ storage = [u \in Users |-> Cleared]
    /\ \E ws \in WordListsOf(words) :
          tasks = SetToBag({[Task("smart_expense_input", 1, "list_categories") EXCEPT
                                !.text = JoinWords(ws),
                                !.cats = list_categories(categories, 1)]})
    /\ last = NoReply

DatesInit == ParsingStarts(DateWords, {InitialCategories})

\* the text is parsed and, when the draft is complete, add_expense returns
DatesNext ==
    \/ SmartExpenseInputResume
    \/ FinalizeResume

DatesSpec == DatesInit /\ [][DatesNext]_vars

(***************************************************************************)
(* Category names in a free text: names that share words                   *)
(***************************************************************************)
w_bus == <<"b", "u", "s">>

w_taxi_bus == <<"t", "a", "x", "i", " ", "b", "u", "s">>

\* the words of a text naming categories: the names, an amount and a word
\* that is none
NameWords == {txt_taxi, w_bus, w_lunch, txt_2500, txt_hello}

\* the categories tables: a name that begins another name, the two with a
\* third name, and names of one word each
NameCatalogues ==
    {{[id |-> 1, user_id |-> 1, name |-> txt_taxi],
      [id |-> 5, user_id |-> 1, name |-> w_taxi_bus]},
     {[id |-> 1, user_id |-> 1, name |-> txt_taxi],
      [id |-> 3, user_id |-> 1, name |-> w_lunch],
      [id |-> 5, user_id |-> 1, name |-> w_taxi_bus]},
     {[id |-> 1, user_id |-> 1, name |-> txt_taxi],
      [id |-> 3, user_id |-> 1, name |-> w_lunch],
      [id |-> 6, user_id |-> 1, name |-> w_bus]}}

NamesInit == ParsingStarts(NameWords, NameCatalogues)

NamesNext == SmartExpenseInputResume

NamesSpec == NamesInit /\ [][NamesNext]_vars

(***************************************************************************)
(* Numbers in a free text: several numeric tokens                          *)
(***************************************************************************)
w_12345 == <<"1", "2", "3", "4", "5">>

w_300 == <<"3", "0", "0">>

\* the numeric tokens of the texts, each with the Decimal it denotes
NumberTokens ==
    {[token |-> txt_2500, value |-> [neg |-> FALSE, coef |-> 2500, places |-> 0]],
     [token |-> w_12345, value |-> [neg |-> FALSE, coef |-> 12345, places |-> 0]],
     [token |-> w_300, value |-> [neg |-> FALSE, coef |-> 300, places |-> 0]],
     [token |-> w_12_50, value |-> [neg |-> FALSE, coef |-> 1250, places |-> 2]],
     [token |-> txt_0, value |-> [neg |-> FALSE, coef |-> 0, places |-> 0]]}

\* the words of a text with numbers: the tokens, a category name and a word
\* that is none
NumberWords == {n.token : n \in NumberTokens} \cup {txt_taxi, w_lunch}

NumbersInit == ParsingStarts(NumberWords, {InitialCategories})

NumbersNext == SmartExpenseInputResume

NumbersSpec == NumbersInit /\ [][NumbersNext]_vars

(***************************************************************************)
(* The guided flow answered to its end: the user answers every prompt and  *)
(* every suspended handler is resumed                                      *)
(***************************************************************************)
GuidedNext ==
    \/ \E u \in Senders : SmartExpenseInput(u)
    \/ SmartExpenseInputResume
    \/ \E u \in Senders : CategoryChosen(u)
    \/ CategoryChosenResume
    \/ \E u \in Senders : DateSelected(u)
    \/ \E u \in Senders : SkipDescription(u)
    \/ FinalizeResume

\* a handler is suspended in the call pc
Awaits(pc) == \E t \in BagToSet(tasks) : t.pc = pc

\* a service call returns in the end, and a user who is asked for a
\* category, a date, an amount or a description answers in the end: weak
\* fairness of each action, written for the resumptions and the date and
\* skip buttons with the condition under which the action can be taken
GuidedFairness ==
    /\ WF_vars(\E u \in Senders : SmartExpenseInput(u))
    /\ WF_vars(\E u \in Senders : CategoryChosen(u))
    /\ \/ []<>(~Awaits("list_categories"))
       \/ []<><<SmartExpenseInputResume>>_vars
    /\ \/ []<>(~Awaits("get_category"))
       \/ []<><<CategoryChosenResume>>_vars
    /\ \/ []<>(~Awaits("add_expense"))
       \/ []<><<FinalizeResume>>_vars
    /\ \/ []<>(\A u \in Senders : storage[u].state # choosing_date)
       \/ []<><<\E u \in Senders : DateSelected(u)>>_vars
    /\ \/ []<>(\A u \in Senders : storage[u].state # entering_description)
       \/ []<><<\E u \in Senders : SkipDescription(u)>>_vars

GuidedSpec == Init /\ [][GuidedNext]_vars /\ GuidedFairness

(***************************************************************************)
(* CategoryService.create_category and rename_category, suspended at each  *)
(* call of the repository, on the categories table with its unique         *)
(* constraint on (user_id, normalized_name)                                *)
(***************************************************************************)
w_Taxi_padded == <<" ", "T", "a", "x", "i", " ">>

\* the names users give their categories
CategoryNames == {txt_taxi, w_Taxi_padded, w_bus}

\* CategoryService._normalize_name: name.strip().lower()
normalize_name(name) == [k \in 1..Len(Strip(name)) |-> Lower(Strip(name)[k])]

\* a row of the categories table with its normalized_name column
CategoryRow(id, user_id, name) ==
    [id |-> id, user_id |-> user_id, name |-> name,
     normalized_name |-> normalize_name(name)]

\* CategoryRepository.get_by_normalized_name: Some(row) or None
get_by_normalized_name(table, user_id, normalized_name) ==
    IF \E r \in table : r.user_id = user_id /\ r.normalized_name = normalized_name
    THEN Some(CHOOSE r \in table :
                  r.user_id = user_id /\ r.normalized_name = normalized_name)
    ELSE None

\* UniqueConstraint("user_id", "normalized_name") of Category
UniqueUserName(table) ==
    \A r, q \in table :
        (r.user_id = q.user_id /\ r.normalized_name = q.normalized_name) => r.id = q.id

\* session.commit() on a table without the unique constraint
commit_Unconstrained(table, changed) == [raised |-> "", table |-> changed]

\* session.commit() of a change of the categories table: IntegrityError, and
\* no change, when the changed table breaks the unique constraint
commit(table, changed) ==
    IF UniqueUserName(changed) THEN [raised |-> "", table |-> changed]
    ELSE [raised |-> "IntegrityError", table |-> table]

\* the id an inserted row is given
NextId(table) == 1 + CHOOSE n \in {0} \cup {r.id : r \in table} :
                         \A r \in table : r.id <= n

\* CategoryRepository.add_category
add_category(table, user_id, name) ==
    commit(table, table \cup {CategoryRow(NextId(table), user_id, name)})

\* CategoryRepository.update_category(category, name=..., normalized_name=...)
update_category(table, category, name) ==
    commit(table, {IF r.id = category.id
                   THEN CategoryRow(r.id, r.user_id, name)
                   ELSE r : r \in table})

\* what a step of a CategoryService method does: the table after it, the
\* answer of its handler and the repository call it suspends in (if any)
CategoryStep(table, reply, task) == [table |-> table, reply |-> reply, task |-> task]

\* create_category up to get_by_normalized_name
create_category(user_id, name, table) ==
    IF Len(Strip(name)) = 0
    THEN CategoryStep(table, Reply(user_id, "create_category", "name_empty"), None)
    ELSE CategoryStep(table, NoReply,
                      Some([Task("create_category", user_id, "get_by_normalized_name")
                               EXCEPT !.text = Strip(name),
                                      !.category = get_by_normalized_name(
                                                       table, user_id,
                                                       normalize_name(name))]))

\* create_category from the result of get_by_normalized_name on: the name is
\* refused when a row was found, else add_category commits the new row; an
\* IntegrityError is not caught and nothing is answered
create_category_resume(t, table) ==
    LET Added(result) ==
            CategoryStep(result.table,
                         IF result.raised = ""
                         THEN Reply(t.user, t.handler, "category_added")
                         ELSE NoReply,
                         None)
    IN IF IsSome(t.category)
       THEN CategoryStep(table, Reply(t.user, t.handler, "category_exists"), None)
       ELSE Added(add_category(table, t.user, t.text))

\* rename_category up to get_by_id
rename_category(user_id, category_id, new_name, table) ==
    IF Len(Strip(new_name)) = 0
    THEN CategoryStep(table, Reply(user_id, "rename_category", "name_empty"), None)
    ELSE CategoryStep(table, NoReply,
                      Some([Task("rename_category", user_id, "get_by_id")
                               EXCEPT !.text = Strip(new_name),
                                      !.category = get_by_id(table, user_id,
                                                             category_id)]))

\* rename_category from the result of get_by_id to get_by_normalized_name
rename_category_lookup(t, table) ==
    IF ~IsSome(t.category)
    THEN CategoryStep(table, Reply(t.user, t.handler, "category_not_found"), None)
    ELSE IF Val(t.category).normalized_name = normalize_name(t.text)
         THEN CategoryStep(table, Reply(t.user, t.handler, "same_name"), None)
         ELSE CategoryStep(table, NoReply,
                           Some([t EXCEPT
                                    !.pc = "get_by_normalized_name",
                                    !.cats = get_by_normalized_name(
                                                 table, t.user,
                                                 normalize_name(t.text))]))

\* rename_category from the result of get_by_normalized_name on: refused on a
\* conflict with another row, else update_category commits the new name
rename_category_resume(t, table) ==
    LET Updated(result) ==
            CategoryStep(result.table,
                         IF result.raised = ""
                         THEN Reply(t.user, t.handler, "category_renamed")
                         ELSE NoReply,
                         None)
        Conflict(conflict) ==
            IF IsSome(conflict) /\ Val(conflict).id # Val(t.category).id
            THEN CategoryStep(table, Reply(t.user, t.handler, "category_exists"), None)
            ELSE Updated(update_category(table, Val(t.category), t.text))
    IN Conflict(t.cats)

\* the step of a CategoryService method of user u takes effect
CategoryCommit(u, step, done) ==
    /\ categories' = step.table
    /\ last' = step.reply
    /\ tasks' = IF IsSome(step.task)
                THEN (tasks (-) done) (+) SetToBag({Val(step.task)})
                ELSE tasks (-) done
    /\ BagCardinality(tasks') <= MaxInFlight
    /\ UNCHANGED <<now, expenses, storage>>

CreateCategory(u) ==
    \E step \in {create_category(u, name, categories) : name \in CategoryNames} :
        CategoryCommit(u, step, EmptyBag)

CreateCategoryResume ==
    \E t \in BagToSet(tasks) :
        /\ t.handler = "create_category" /\ t.pc = "get_by_normalized_name"
        /\ CategoryCommit(t.user, create_category_resume(t, categories), SetToBag({t}))

RenameCategory(u) ==
    \E step \in {rename_category(u, id, name, categories) :
                     id \in {r.id : r \in categories}, name \in CategoryNames} :
        CategoryCommit(u, step, EmptyBag)

RenameCategoryLookup ==
    \E t \in BagToSet(tasks) :
        /\ t.handler = "rename_category" /\ t.pc = "get_by_id"
        /\ CategoryCommit(t.user, rename_category_lookup(t, categories), SetToBag({t}))

RenameCategoryResume ==
    \E t \in BagToSet(tasks) :
        /\ t.handler = "rename_category" /\ t.pc = "get_by_normalized_name"
        /\ CategoryCommit(t.user, rename_category_resume(t, categories), SetToBag({t}))

\* the categories table as create_category left it: each user has "taxi"
CategoriesInit ==
    /\ now = StartClock
    /\ categories = {CategoryRow(r.id, r.user_id, r.name) : r \in InitialCategories}
    /\ expenses = <<>>
    /\ storage = [u \in Users |-> Cleared]
    /\ tasks = EmptyBag
    /\ last = NoReply

CategoriesNext ==
    \/ \E u \in Senders : CreateCategory(u)
    \/ CreateCategoryResume
    \/ \E u \in Senders : RenameCategory(u)
    \/ RenameCategoryLookup
    \/ RenameCategoryResume

CategoriesSpec == CategoriesInit /\ [][CategoriesNext]_vars

(***************************************************************************)
(* Properties                                                              *)
(***************************************************************************)
\* the suspended handler t resumes in this step
Resumed(t) == CopiesIn(t, tasks') < CopiesIn(t, tasks)

\* smart_expense_input t resumes with the result of list_categories
SmartResumes(t) ==
    Resumed(t) /\ t.handler = "smart_expense_input" /\ t.pc = "list_categories"

\* this step is the step `step` of a handler of user u started by a new event
Handled(u, step) == Commit(u, step, EmptyBag)

\* this step calls ExpenseService.add_expense for user u
RecorderCalled(u) ==
    \E t \in BagToSet(tasks') :
        /\ CopiesIn(t, tasks') > CopiesIn(t, tasks)
        /\ t.pc = "add_expense" /\ t.user = u

\* the FSM state owning the first unresolved field in the order category,
\* date, amount, description
StepFor(data) ==
    IF ~IsSome(data.category_id) THEN choosing_category
    ELSE IF ~IsSome(data.spent_at) THEN choosing_date
    ELSE IF ~IsSome(data.amount) THEN entering_amount
    ELSE entering_description

FieldPrompts == {"choose_category", "choose_date", "enter_amount", "enter_description"}

FieldHandlers ==
    {"smart_expense_input", "category_chosen", "date_selected", "manual_date_entered",
     "amount_received"}

\* C1: after a free text, a category choice, a date choice or an amount entry
\* that adds a field and asks for the next one, the FSM state of the user is
\* the one owning the first unresolved field in the order category, date,
\* amount, description.
C1_StepOwnsFirstUnresolvedField ==
    (last.by \in FieldHandlers /\ last.kind \in FieldPrompts)
        => storage[last.to].state = StepFor(storage[last.to].data)

\* a category choice has just been merged and the date is asked for
C1_Witness ==
    /\ last.by = "category_chosen" /\ last.kind = "choose_date"
    /\ storage[last.to].state = choosing_date
    /\ IsSome(storage[last.to].data.category_id)
    /\ ~IsSome(storage[last.to].data.spent_at)

\* the draft of "taxi 2500" for a user whose category taxi is the row category
TaxiDraft(category) ==
    [EmptyData EXCEPT !.category_id = Some(category.id),
                      !.category_name = Some(txt_taxi),
                      !.amount = Some(<<"2", "5", "0", "0">>)]

\* smart_expense_input resumes with the text "taxi 2500" and the one category taxi
TaxiTextResumes(t) ==
    /\ SmartResumes(t)
    /\ t.text = txt_taxi_2500
    /\ Len(t.cats) = 1 /\ t.cats[1].name = txt_taxi

\* the "today" quick pick is handled for user u, whose session holds the
\* draft of "taxi 2500" in choosing_date
TodayPicked(u, category) ==
    /\ storage[u] = [state |-> choosing_date, data |-> TaxiDraft(category)]
    /\ Handled(u, date_selected(u, DateIso(now.date), storage[u], now, categories))

\* C2: "taxi 2500" sent by a user whose only category is taxi leaves the
\* session with category taxi, amount 2500, no date and the step choosing_date;
\* the "today" quick pick then stores a spent_at dated today, moves to
\* entering_description and asks for the description: add_expense is not
\* called and nothing is recorded while that event is handled.
C2_TaxiThenTodayAsksDescription ==
    [][/\ \A t \in BagToSet(tasks) :
             TaxiTextResumes(t)
                 => /\ storage'[t.user] = [state |-> choosing_date,
                                           data |-> TaxiDraft(t.cats[1])]
                    /\ last' = Reply(t.user, "smart_expense_input", "choose_date")
       /\ \A u \in Users : \A category \in categories :
             TodayPicked(u, category)
                 => /\ storage'[u].state = entering_description
                    /\ storage'[u].data.category_id = Some(category.id)
                    /\ storage'[u].data.amount = Some(<<"2", "5", "0", "0">>)
                    /\ parse_spent_at_date(storage'[u].data.spent_at) = Some(now.date)
                    /\ last' = Reply(u, "date_selected", "enter_description")
                    /\ ~RecorderCalled(u)
                    /\ tasks' = tasks /\ expenses' = expenses]_vars

\* the description is asked for after the "today" pick on the draft of "taxi 2500"
C2_Witness ==
    /\ last = Reply(1, "date_selected", "enter_description")
    /\ storage[1].state = entering_description
    /\ storage[1].data.category_name = Some(txt_taxi)
    /\ storage[1].data.amount = Some(<<"2", "5", "0", "0">>)
    /\ parse_spent_at_date(storage[1].data.spent_at) = Some(now.date)
    /\ ~IsSome(storage[1].data.prefilled_description)

\* C2 as stated: the "today" quick pick on the draft of "taxi 2500" finalizes
\* in that event: add_expense is called with amount 2500, the category taxi
\* and a spent_at dated today.
C2_TodayFinalizes ==
    [][\A u \in Users : \A category \in categories :
          TodayPicked(u, category)
              => \E t \in BagToSet(tasks') :
                     /\ CopiesIn(t, tasks') > CopiesIn(t, tasks)
                     /\ t.pc = "add_expense" /\ t.user = u
                     /\ Val(t.kwargs).category_id = category.id
                     /\ DecimalStr(Val(t.kwargs).amount) = <<"2", "5", "0", "0">>
                     /\ Val(t.kwargs).spent_at.date = now.date]_vars

\* category, date, amount and a description to record are all held in data
AllResolved(data) ==
    /\ IsSome(data.category_id) /\ IsSome(data.category_name)
    /\ IsSome(data.spent_at)
    /\ IsSome(data.amount) /\ Len(Val(data.amount)) > 0
    /\ IsSome(data.prefilled_description)
    /\ Len(Strip(Val(data.prefilled_description))) > 0

\* this step calls add_expense for user u with the fields of data and the
\* description given, and sends nothing
FinalizesWith(u, data, description) ==
    /\ last' = NoReply
    /\ \E t \in BagToSet(tasks') :
          /\ CopiesIn(t, tasks') > CopiesIn(t, tasks)
          /\ t.pc = "add_expense" /\ t.user = u
          /\ Val(t.kwargs).user_id = u
          /\ Val(t.kwargs).category_id = Val(data.category_id)
          /\ Some(Val(t.kwargs).amount) = DecimalOf(Val(data.amount))
          /\ Some(Val(t.kwargs).spent_at) = DatetimeFromIso(Val(data.spent_at))
          /\ Val(t.kwargs).description = description

\* the session of u after this step holds everything and the step calls
\* add_expense with it
FinalizesIfResolved(u) ==
    AllResolved(storage'[u].data)
        => FinalizesWith(u, storage'[u].data,
                         Some(Strip(Val(storage'[u].data.prefilled_description))))

\* the draft holds a category, a date, an amount and a description
AllParsed(parsed) ==
    /\ IsSome(parsed.category) /\ IsSome(parsed.spent_at)
    /\ IsSome(parsed.amount) /\ IsSome(parsed.description)

\* C3: whenever category, date, amount and description are all resolved once
\* the information of an event is merged, add_expense is called while that
\* event is handled and no prompt is sent, whether the last field came from a
\* free text, a category choice, a date choice, a typed date or an amount.
C3_ResolvedDraftIsFinalizedAtOnce ==
    [][/\ \A t \in BagToSet(tasks) :
             SmartResumes(t)
                 => \A parsed \in {ParsedDraft(t.text, t.cats, now)} :
                        AllParsed(parsed)
                            => FinalizesWith(t.user, storage'[t.user].data,
                                             parsed.description)
       /\ \A t \in BagToSet(tasks) :
             (Resumed(t) /\ t.pc = "get_category" /\ IsSome(t.category))
                 => FinalizesIfResolved(t.user)
       /\ \A u \in Users :
             (storage[u].state = choosing_date /\ storage'[u] # storage[u])
                 => /\ \A d \in CallbackDates(now) :
                          Handled(u, date_selected(u, d, storage[u], now, categories))
                              => FinalizesIfResolved(u)
                    /\ \A m \in Messages :
                          (/\ Routed(m, storage[u].state) = "manual_date_entered"
                           /\ Handled(u, manual_date_entered(u, m, storage[u], now,
                                                             categories)))
                              => FinalizesIfResolved(u)
       /\ \A u \in Users :
             (storage[u].state = entering_amount /\ storage'[u] # storage[u])
                 => \A m \in Messages :
                        (/\ Routed(m, storage[u].state) = "amount_received"
                         /\ Handled(u, amount_received(u, m, storage[u], categories)))
                            => FinalizesIfResolved(u)]_vars

\* a date choice supplied the last missing field and add_expense was called
C3_Witness ==
    /\ last = NoReply
    /\ \E t \in BagToSet(tasks) :
          /\ t.pc = "add_expense" /\ t.handler = "date_selected"
          /\ AllResolved(storage[t.user].data)
          /\ storage[t.user].data.category_id = Some(Val(t.kwargs).category_id)

\* C4 as stated, with the success it presumes: a finalization whose category
\* resolves succeeds, so when the call of add_expense is over the expense is
\* recorded once with the fields of the call, the confirmation is sent and
\* the session is Idle with no collected field.
C4_FinalizationRecordsAndClears ==
    [][\A t \in BagToSet(tasks) :
          (Resumed(t) /\ t.pc = "add_expense" /\ t.raised # "ValueError")
              => /\ storage'[t.user] = Cleared
                 /\ last'.kind = "success"
                 /\ Cardinality({k \in 1..Len(expenses') :
                                    /\ expenses'[k].user_id = t.user
                                    /\ expenses'[k].amount = Val(t.kwargs).amount
                                    /\ expenses'[k].category_id = Val(t.kwargs).category_id
                                    /\ expenses'[k].spent_at = Val(t.kwargs).spent_at
                                    /\ expenses'[k].description = Val(t.kwargs).description})
                        = 1]_vars

\* the text of the suspended smart_expense_input t as the FSM data it writes
TextDraft(t) == DraftData(ParsedDraft(t.text, t.cats, now))

\* C5: Cancel, whatever the step, leaves the session Idle with no collected
\* field and no pending description, records nothing and calls nothing; a
\* free text that is merged afterwards is merged into an empty session: the
\* session then holds the fields of that text and nothing else.
C5_CancelLeavesNothingBehind ==
    [][/\ \A u \in Users :
             Handled(u, cancel_addition(u, storage[u]))
                 => /\ storage'[u] = Cleared
                    /\ expenses' = expenses /\ tasks' = tasks
                    /\ last' = Reply(u, "cancel_addition", "cancelled")
       /\ \A t \in BagToSet(tasks) :
             (SmartResumes(t) /\ last'.kind \in FieldPrompts \cup {"none"})
                 => storage'[t.user].data = TextDraft(t)]_vars

\* Cancel was handled while the session held a complete draft whose
\* finalization is still in flight
C5_Witness ==
    /\ last.kind = "cancelled"
    /\ storage[last.to] = Cleared
    /\ \E t \in BagToSet(tasks) : t.pc = "add_expense" /\ t.user = last.to

\* the handlers of user u suspended in a service call
InFlight(u) == {t \in BagToSet(tasks) : t.user = u}

\* C6 as stated: two events of one user are never processed concurrently, so
\* at most one handler of a user is suspended at a time and, while it is, no
\* step of another handler changes that user's session.
C6_OneHandlerPerUser ==
    [][\A u \in Users :
          /\ \A t \in InFlight(u) : CopiesIn(t, tasks) = 1
          /\ Cardinality(InFlight(u)) <= 1
          /\ \A t \in InFlight(u) : ~Resumed(t) => storage'[u] = storage[u]]_vars

\* C7 as stated: a category_chosen that resumes from get_category in a session
\* cancelled or finalized since the choice (it is Idle with no collected
\* field) writes no category into it and sets no step on it.
C7_ResumeRespectsClearedSession ==
    [][\A t \in BagToSet(tasks) :
          (Resumed(t) /\ t.pc = "get_category" /\ storage[t.user] = Cleared)
              => storage'[t.user] = Cleared]_vars

\* C8 as stated: when add_expense fails at finalization because the category
\* id of the session no longer resolves, the error is shown and the session
\* is Idle afterwards, not left in entering_description with the stale id.
C8_MissingCategoryClearsSession ==
    [][\A t \in BagToSet(tasks) :
          (Resumed(t) /\ t.pc = "add_expense" /\ t.raised = "ValueError")
              => /\ last' = Reply(t.user, t.handler, "category_not_found")
                 /\ storage'[t.user] = Cleared]_vars

\* the text of the suspended smart_expense_input t holds an amount or a date
TextHoldsAField(t) ==
    \E parsed \in {ParsedDraft(t.text, t.cats, now)} :
        IsSome(parsed.spent_at) \/ IsSome(parsed.amount)

\* C9: for a user without categories, a free text handled in Idle in which
\* an amount or a date is recognized is answered with the prompt to create a
\* category and the session is Idle with nothing collected; a text in which
\* nothing is recognized is answered with the fallback message instead, the
\* session left as it was.  No state of the flow is entered either way.
C9_NoCategoriesPromptsCreation ==
    [][\A t \in BagToSet(tasks) :
          (SmartResumes(t) /\ Len(t.cats) = 0)
              => /\ tasks' = tasks (-) SetToBag({t})
                 /\ expenses' = expenses
                 /\ IF TextHoldsAField(t)
                    THEN /\ last' = Reply(t.user, "smart_expense_input", "create_category")
                         /\ storage'[t.user] = Cleared
                    ELSE /\ last' = Reply(t.user, "smart_expense_input", "fallback")
                         /\ storage'[t.user] = storage[t.user]]_vars

\* a user without categories sent a text with an amount and was asked to
\* create a category
C9_Witness ==
    /\ last = Reply(1, "smart_expense_input", "create_category")
    /\ list_categories(categories, 1) = <<>>
    /\ storage[1] = Cleared

\* C9 as stated: for a user without categories every free text handled in
\* Idle is answered with the prompt to create a category, whatever it holds.
C9_EveryTextPromptsCreation ==
    [][\A t \in BagToSet(tasks) :
          (SmartResumes(t) /\ Len(t.cats) = 0)
              => /\ last' = Reply(t.user, "smart_expense_input", "create_category")
                 /\ storage'[t.user] = Cleared]_vars

\* the text of the suspended smart_expense_input t holds no category, no
\* date and no amount
TextHoldsNothing(t) ==
    \E parsed \in {ParsedDraft(t.text, t.cats, now)} :
        ~IsSome(parsed.category) /\ ~IsSome(parsed.spent_at) /\ ~IsSome(parsed.amount)

\* C10: a free text handled in Idle from which no category, no date and no
\* amount is recognized is answered with the fallback message; the session is
\* left as it was, add_expense is not called and nothing is recorded.
C10_UnrecognizedTextFallsBack ==
    [][\A t \in BagToSet(tasks) :
          (SmartResumes(t) /\ TextHoldsNothing(t))
              => /\ last' = Reply(t.user, "smart_expense_input", "fallback")
                 /\ storage'[t.user] = storage[t.user]
                 /\ tasks' = tasks (-) SetToBag({t})
                 /\ expenses' = expenses]_vars

\* a user who has a category was sent the fallback message and is Idle
C10_Witness ==
    /\ last = Reply(1, "smart_expense_input", "fallback")
    /\ list_categories(categories, 1) # <<>>
    /\ storage[1] = Cleared
    /\ tasks = EmptyBag /\ expenses = <<>>

\* the draft of "2500": an amount and nothing else
AmountOnlyDraft == [EmptyData EXCEPT !.amount = Some(txt_2500)]

\* C11: "2500" alone, sent in Idle by a user with one category, leaves the
\* session with amount 2500, no category and the step choosing_category, and
\* the category is asked for; the category choice and the date choice that
\* follow keep the amount and do not enter entering_amount, a step no session
\* holding an amount is ever in.
C11_AmountAloneAsksCategory ==
    [][/\ \A t \in BagToSet(tasks) :
             (SmartResumes(t) /\ t.text = txt_2500 /\ Len(t.cats) = 1)
                 => /\ storage'[t.user] = [state |-> choosing_category,
                                           data |-> AmountOnlyDraft]
                    /\ last' = Reply(t.user, "smart_expense_input", "choose_category")
       /\ \A t \in BagToSet(tasks) :
             (/\ Resumed(t) /\ t.pc = "get_category"
              /\ storage[t.user].data.amount = Some(txt_2500))
                 => /\ storage'[t.user].data.amount = Some(txt_2500)
                    /\ storage'[t.user].state # entering_amount
       /\ \A u \in Users :
             (/\ storage[u].state = choosing_date
              /\ storage[u].data.amount = Some(txt_2500)
              /\ \E d \in CallbackDates(now) :
                     Handled(u, date_selected(u, d, storage[u], now, categories)))
                 => /\ storage'[u].data.amount = Some(txt_2500)
                    /\ storage'[u].state # entering_amount
       /\ \A u \in Users :
             storage'[u].state = entering_amount => ~IsSome(storage'[u].data.amount)]_vars

\* "2500" was just handled: the category is asked for and the amount is held
C11_Witness ==
    /\ last = Reply(1, "smart_expense_input", "choose_category")
    /\ storage[1] = [state |-> choosing_category, data |-> AmountOnlyDraft]

\* the place of an FSM state in the order of the flow, Idle first
StepRank(state) ==
    CASE state = NoState -> 0
      [] state = choosing_category -> 1
      [] state = choosing_date -> 2
      [] state = entering_amount -> 3
      [] state = entering_description -> 4

\* C12 as stated: no step moves the session of a user to an earlier step of
\* the flow, except to Idle with nothing collected (finalize, Cancel) or to
\* choosing_category with nothing collected (Restart).
C12_StepOnlyAdvances ==
    [][\A u \in Users :
          StepRank(storage'[u].state) < StepRank(storage[u].state)
              => \/ storage'[u] = Cleared
                 \/ storage'[u] = [state |-> choosing_category, data |-> EmptyData]]_vars

\* C13: a category choice whose id is not the id of a category of the user
\* is answered with the category-not-found alert and changes nothing: the FSM
\* state and data of the user are the same after the lookup is started and
\* after its result is handled, and nothing is recorded.
C13_UnknownCategoryMutatesNothing ==
    [][/\ \A t \in BagToSet(tasks) :
             (Resumed(t) /\ t.pc = "get_category" /\ ~IsSome(t.category))
                 => /\ storage' = storage
                    /\ last' = Reply(t.user, "category_chosen", "category_not_found")
                    /\ tasks' = tasks (-) SetToBag({t})
                    /\ expenses' = expenses
       /\ \A u \in Users :
             (/\ storage[u].state = choosing_category
              /\ \E id \in CategoryIds :
                     Handled(u, category_chosen(u, id, storage[u], categories)))
                 => storage' = storage /\ expenses' = expenses]_vars

\* the alert was just sent to a user whose session is still in choosing_category
C13_Witness ==
    /\ last = Reply(1, "category_chosen", "category_not_found")
    /\ storage[1].state = choosing_category
    /\ get_by_id(categories, 1, 1) = None

\* the step taken for the message m of user u by the handler the routers
\* give it to
Dispatched(u, m) ==
    CASE Routed(m, storage[u].state) = "smart_expense_input"
             -> smart_expense_input(u, m, storage[u], categories)
      [] Routed(m, storage[u].state) = "awaiting_category_selection"
             -> awaiting_category_selection(u, storage[u])
      [] Routed(m, storage[u].state) = "amount_received"
             -> amount_received(u, m, storage[u], categories)
      [] Routed(m, storage[u].state) = "description_received"
             -> description_received(u, m, storage[u], categories)
      [] Routed(m, storage[u].state) = "manual_date_entered"
             -> manual_date_entered(u, m, storage[u], now, categories)
      [] OTHER -> Step(storage[u], NoReply, None, None)

\* what the flow owes a date offered in choosing_date: a date after today is
\* refused with the message for it and the session is left as it was; any
\* other date is stored as spent_at with the current time of day
DateOutcome(u, date_value) ==
    IF ~DateLE(date_value, now.date)
    THEN last'.kind = "future_date" /\ storage'[u] = storage[u]
    ELSE storage'[u].data.spent_at = Some(combine_with_current_time(date_value, now))

\* the quick pick d is handled for user u, who is in choosing_date
DatePicked(u, d) ==
    /\ storage[u].state = choosing_date
    /\ IsSome(DateFromIso(d))
    /\ Handled(u, date_selected(u, d, storage[u], now, categories))

\* the message m, a date typed as DD.MM.YYYY, is handled for user u, who is in
\* choosing_date
DateTyped(u, m) ==
    /\ storage[u].state = choosing_date
    /\ IsSome(m) /\ IsSome(strptime_dmy(StrippedText(m)))
    /\ Handled(u, Dispatched(u, m))

\* C14 as stated: in choosing_date a quick pick and a typed date are treated
\* alike: a date after today is refused with the message for it, the session
\* unchanged, and a date up to today becomes spent_at with the current time.
C14_FutureDateRefusedElseStored ==
    [][\A u \in Users :
          /\ \A d \in CallbackDates(now) :
                DatePicked(u, d) => DateOutcome(u, Val(DateFromIso(d)))
          /\ \A m \in Messages :
                DateTyped(u, m) => DateOutcome(u, Val(strptime_dmy(StrippedText(m))))]_vars

\* the quick picks alone: a pick after today is refused, any other is stored
QuickPickRefusedElseStored ==
    [][\A u \in Users : \A d \in CallbackDates(now) :
          DatePicked(u, d) => DateOutcome(u, Val(DateFromIso(d)))]_vars

\* the message m, a text, is handled for user u, who is in entering_amount
AmountTyped(u, m) ==
    /\ storage[u].state = entering_amount
    /\ IsSome(m)
    /\ Handled(u, Dispatched(u, m))

\* what the flow owes a text offered in entering_amount: a text that is not a
\* positive decimal is answered with a new prompt and changes nothing; any
\* other becomes the amount and the step becomes entering_description
AmountOutcome(u, amount) ==
    IF ~IsSome(amount)
    THEN last'.kind = "amount_invalid" /\ storage'[u] = storage[u]
    ELSE /\ storage'[u].data.amount = Some(DecimalStr(Val(amount)))
         /\ storage'[u].state = entering_description

\* C15 as stated: in entering_amount a text that does not parse to a positive
\* decimal is answered with a new prompt, state and data unchanged, and a text
\* that does parse becomes the amount and moves the step to
\* entering_description.
C15_AmountTextParsedOrReprompted ==
    [][\A u \in Users : \A m \in Messages :
          AmountTyped(u, m) => AmountOutcome(u, parse_amount(Val(m)))]_vars

\* the description a text stands for: the trimmed text, or none when blank
DescriptionOf(m) ==
    IF Len(StrippedText(m)) = 0 THEN None ELSE Some(StrippedText(m))

\* C16 as stated: in entering_description every message, with a text or
\* without, and every press of the skip button calls add_expense in the same
\* step with the category, amount and spent_at of the session and with the
\* trimmed text as description, none for a blank text or a skip, and sends no
\* prompt.
C16_DescriptionAlwaysFinalizes ==
    [][\A u \in Users :
          storage[u].state = entering_description
              => /\ \A m \in Messages :
                       Handled(u, Dispatched(u, m))
                           => FinalizesWith(u, storage[u].data, DescriptionOf(m))
                 /\ Handled(u, skip_description(u, storage[u], categories))
                       => FinalizesWith(u, storage[u].data, None)]_vars

\* the skip button and the message without text alone
SkipAlwaysFinalizes ==
    [][\A u \in Users :
          storage[u].state = entering_description
              => /\ Handled(u, description_received(u, None, storage[u], categories))
                       => FinalizesWith(u, storage[u].data, None)
                 /\ Handled(u, skip_description(u, storage[u], categories))
                       => FinalizesWith(u, storage[u].data, None)]_vars

\* the keys finalize_expense requires are all in data
HoldsRequired(data) ==
    /\ IsSome(data.category_id) /\ IsSome(data.category_name)
    /\ IsSome(data.amount) /\ IsSome(data.spent_at)

\* the handler h of user u gave up finalizing: nothing is called or recorded,
\* the session is cleared and the user is told to start again
GaveUp(u, h) ==
    /\ storage'[u] = Cleared
    /\ last' = Reply(u, h, "finalize_failed")
    /\ tasks' = tasks
    /\ expenses' = expenses

\* C17: when the skip button or a description is handled for a session that
\* lacks the category, the amount or spent_at, add_expense is not called,
\* the session is cleared to Idle with nothing collected and the user is told
\* to start again; add_expense is only ever called from a session holding
\* all of them, so nothing finalizes what such a session held.
C17_MissingFieldClearsSession ==
    [][\A u \in Users :
          /\ (storage[u].state = entering_description /\ ~HoldsRequired(storage[u].data))
                => /\ Handled(u, skip_description(u, storage[u], categories))
                         => GaveUp(u, "skip_description")
                   /\ \A m \in Messages :
                         (/\ Routed(m, storage[u].state) = "description_received"
                          /\ Handled(u, description_received(u, m, storage[u], categories)))
                             => GaveUp(u, "description_received")
          /\ RecorderCalled(u) => HoldsRequired(storage'[u].data)]_vars

\* the skip button was pressed on a session lacking a required key
C17_Witness ==
    /\ last = Reply(1, "skip_description", "finalize_failed")
    /\ storage[1] = Cleared
    /\ tasks = EmptyBag /\ expenses = <<>>

\* the Restart handler t resumes with the categories of its user
RestartResumes(t) ==
    Resumed(t) /\ t.handler = "add_more_requested" /\ t.pc = "list_categories"

\* C18: Restart, whatever the step, first clears the FSM state and every
\* collected field, the pending description included, and records nothing;
\* once the categories of the user are known it sets choosing_category and
\* asks for the category if there is one, and if there is none it tells the
\* user to create a category and writes nothing, so the session stays Idle.
C18_RestartClearsAndAsksCategory ==
    [][/\ \A u \in Users :
             Handled(u, start_add_expense_flow("add_more_requested", u, categories))
                 => storage'[u] = Cleared /\ expenses' = expenses
       /\ \A t \in BagToSet(tasks) :
             RestartResumes(t)
                 => /\ expenses' = expenses
                    /\ tasks' = tasks (-) SetToBag({t})
                    /\ IF Len(t.cats) = 0
                       THEN /\ storage' = storage
                            /\ last' = Reply(t.user, "add_more_requested", "create_category")
                       ELSE /\ storage'[t.user].state = choosing_category
                            /\ storage'[t.user].data = storage[t.user].data
                            /\ storage[t.user] = Cleared
                                  => storage'[t.user].data = EmptyData
                            /\ last' = Reply(t.user, "add_more_requested",
                                             "choose_category")]_vars

\* Restart was handled for a user with a category: the category is asked for
\* and the session holds nothing
C18_Witness ==
    /\ last = Reply(1, "add_more_requested", "choose_category")
    /\ storage[1] = [state |-> choosing_category, data |-> EmptyData]
    /\ tasks = EmptyBag

\* Restart was handled for a user without categories: the session is Idle
RestartWithoutCategories ==
    /\ last = Reply(1, "add_more_requested", "create_category")
    /\ storage[1] = Cleared

\* the ISO datetime held under spent_at is of a day up to today
SpentAtNotAfterToday(spent_at) ==
    \A parsed \in {DatetimeFromIso(spent_at)} :
        IsSome(parsed) /\ DateLE(Val(parsed).date, now.date)

\* the messages that are a date typed as DD.MM.YYYY
TypedDates == {m \in Messages : IsSome(m) /\ IsSome(strptime_dmy(StrippedText(m)))}

\* C19: a spent_at held in a session, passed to add_expense or recorded with
\* an expense is never of a day after today, and no date a user may type in
\* choosing_date would make it so: no date of the future is accepted from a
\* free text, a quick pick or a typed date.
C19_NoFutureSpentAt ==
    /\ \A u \in Users :
          /\ IsSome(storage[u].data.spent_at)
                => SpentAtNotAfterToday(Val(storage[u].data.spent_at))
          /\ storage[u].state = choosing_date
                => \A m \in TypedDates :
                       \A step \in {manual_date_entered(u, m, storage[u], now, categories)} :
                           IsSome(step.session.data.spent_at)
                               => SpentAtNotAfterToday(Val(step.session.data.spent_at))
    /\ \A t \in BagToSet(tasks) :
          t.pc = "add_expense" => DateLE(Val(t.kwargs).spent_at.date, now.date)
    /\ \A k \in 1..Len(expenses) : DateLE(expenses[k].spent_at.date, now.date)

\* the quick pick of a day after today was just refused: no spent_at is held
C19_Witness ==
    /\ last = Reply(1, "date_selected", "future_date")
    /\ storage[1].state = choosing_date
    /\ ~IsSome(storage[1].data.spent_at)

\* "01.01.2025" was handled in Idle: the date, a day after today, is not held
FutureDateInTextIgnored ==
    /\ last = Reply(1, "smart_expense_input", "choose_category")
    /\ IsSome(storage[1].data.amount) /\ Val(storage[1].data.amount) # txt_2500
    /\ ~IsSome(storage[1].data.spent_at)
    /\ storage[1].data.prefilled_description = Some(<<".", "2", "0", "2", "5">>)

\* the text s of a stored amount reads as a number greater than zero
AmountIsPositive(s) == IsSome(DecimalOf(s)) /\ DecimalPositive(Val(DecimalOf(s)))

\* what parse_amount makes of every message as a typed amount
EnteredAmounts == {parse_amount(TextOrEmpty(m)) : m \in Messages}

\* what _parse_add_command makes of every /add command
CommandAmounts == {parse_add_command(c) : c \in AddCommands}

\* C20: every amount the bot holds or hands on is greater than zero: the
\* amount of every session, of every call of add_expense and of every
\* recorded expense; the amount amount_received would store for any message
\* in a session that waits for one; the amount parse_amount accepts and the
\* amount the /add command passes to add_expense.
C20_AmountsArePositive ==
    /\ \A u \in Users :
          /\ IsSome(storage[u].data.amount) => AmountIsPositive(Val(storage[u].data.amount))
          /\ storage[u].state = entering_amount
                => \A m \in Messages :
                       \A step \in {amount_received(u, m, storage[u], categories)} :
                           /\ IsSome(step.session.data.amount)
                                 => AmountIsPositive(Val(step.session.data.amount))
                           /\ IsSome(step.task) /\ Val(step.task).pc = "add_expense"
                                 => DecimalPositive(Val(Val(step.task).kwargs).amount)
    /\ \A t \in BagToSet(tasks) :
          t.pc = "add_expense" => DecimalPositive(Val(t.kwargs).amount)
    /\ \A k \in 1..Len(expenses) : DecimalPositive(expenses[k].amount)
    /\ \A a \in EnteredAmounts : IsSome(a) => DecimalPositive(Val(a))
    /\ \A c \in CommandAmounts : IsSome(c) => DecimalPositive(Val(c).amount)

\* a call of add_expense is in flight for the sender, whose session holds the
\* amount it passes
C20_Witness ==
    /\ IsSome(storage[1].data.amount)
    /\ \E t \in BagToSet(tasks) :
          /\ t.pc = "add_expense" /\ t.user = 1
          /\ Some(Val(t.kwargs).amount) = DecimalOf(Val(storage[1].data.amount))

\* a session waits for an amount that the text "0" would not give it
ZeroAmountRefused ==
    /\ storage[1].state = entering_amount
    /\ amount_received(1, Some(txt_0), storage[1], categories).reply
          = Reply(1, "amount_received", "amount_invalid")
    /\ ~IsSome(parse_add_command(<<"/", "a", "d", "d", " ", "0", " ", "t", "a", "x", "i">>))
    /\ IsSome(parse_add_command(<<"/", "a", "d", "d", " ", "2", "5", "0", "0", " ", "t", "a", "x", "i">>))

\* the fields of a draft the flow collects
CollectedFields == {"category_id", "category_name", "amount", "spent_at"}

\* the category the data name, if any, is a category of the catalogue under
\* its own name
NamesOneCategory(data) ==
    /\ IsSome(data.category_id) <=> IsSome(data.category_name)
    /\ IsSome(data.category_id)
          => \E c \in InitialCategories :
                 c.id = Val(data.category_id) /\ c.name = Val(data.category_name)

\* C21: between two resets of a session (steps that leave it Idle and empty)
\* a collected field that is set keeps its value, so category, amount and
\* spentAt each change at most once, from unset to a value; and the category
\* id and the category name of a session are those of one category.
C21_FieldsSetOnce ==
    [][\A u \in Users :
          /\ storage'[u] # Cleared
                => \A f \in CollectedFields :
                       IsSome(storage[u].data[f]) => storage'[u].data[f] = storage[u].data[f]
          /\ NamesOneCategory(storage'[u].data)]_vars

\* the same with the state.clear() of smart_expense_input counted as a reset:
\* between two clears no set field changes
FieldsSetOnceBetweenClears ==
    [][\A u \in Users :
          (storage'[u] # Cleared /\ ~\E t \in BagToSet(tasks) : SmartResumes(t))
              => \A f \in CollectedFields :
                     IsSome(storage[u].data[f]) => storage'[u].data[f] = storage[u].data[f]]_vars

\* C22: a session whose step is Idle (no FSM state) holds no collected field
\* and no pending description: initially, and after every step that leaves
\* it Idle (Cancel, a deleted category, the fallback and the no-categories
\* answers to a free text, a restart).
C22_IdleSessionIsEmpty ==
    \A u \in Users : storage[u].state = NoState => storage[u].data = EmptyData

\* the sender deleted the category and then sent a text with an amount: the
\* answer is to create a category and the session is Idle
C22_Witness ==
    /\ last = Reply(1, "smart_expense_input", "create_category")
    /\ storage[1].state = NoState
    /\ categories = {c \in InitialCategories : c.user_id # 1}

\* the sender's session is Idle after Cancel
IdleAfterCancel ==
    /\ last = Reply(1, "cancel_addition", "cancelled")
    /\ storage[1].state = NoState

\* the users a step acts for: the user of the handler that starts or resumes
\* in it and the user it replies to
Actors ==
    {t.user : t \in {x \in BagToSet(tasks) \cup BagToSet(tasks') :
                        CopiesIn(x, tasks') # CopiesIn(x, tasks)}}
    \cup ({last'.to} \cap Users)

\* the category the data hold is a category of user u
OwnCategory(u, data) ==
    IsSome(data.category_id)
        => \E c \in InitialCategories : c.id = Val(data.category_id) /\ c.user_id = u

\* the arguments of the call of add_expense t are the fields of the session
\* of its user
CarriesOwnSession(t, data) ==
    /\ Val(t.kwargs).user_id = t.user
    /\ Some(Val(t.kwargs).category_id) = data.category_id
    /\ Some(DecimalStr(Val(t.kwargs).amount)) = data.amount
    /\ Some(DatetimeIso(Val(t.kwargs).spent_at)) = data.spent_at

\* C23: a step taken for one user changes the session of no other user,
\* however the handlers of the two users interleave; the session of a user
\* holds a category of that user only, a call of add_expense carries the
\* fields of the session of its own user, and a recorded row is a row of the
\* user and the category of such a call.
C23_SessionsAreIndependent ==
    [][/\ \A u \in Actors : \A v \in Users \ {u} : storage'[v] = storage[v]
       /\ \A u \in Users : \A v \in Users \ {u} :
             storage'[u] = storage[u] \/ storage'[v] = storage[v]
       /\ \A u \in Users : OwnCategory(u, storage'[u].data)
       /\ \A u \in Users : \A t \in BagToSet(tasks') :
             (t.pc = "add_expense" /\ t.user = u /\ CopiesIn(t, tasks') > CopiesIn(t, tasks))
                 => CarriesOwnSession(t, storage'[u].data)
       /\ \A k \in 1..Len(expenses') :
             \E c \in InitialCategories :
                 c.id = expenses'[k].category_id /\ c.user_id = expenses'[k].user_id]_vars

\* both users are in the middle of an expense, each with a category of their
\* own, and a call of add_expense is in flight for each
C23_Witness ==
    /\ \A u \in Users :
          /\ storage[u].state = entering_description
          /\ storage[u].data.category_id = Some(u)
          /\ \E t \in BagToSet(tasks) : t.pc = "add_expense" /\ t.user = u
    /\ storage[1].data.amount # storage[2].data.amount

\* user 2 chose the category of user 1 from a keyboard and was refused
ForeignCategoryRefused ==
    /\ last = Reply(2, "category_chosen", "category_not_found")
    /\ storage[2].state = choosing_category
    /\ ~IsSome(storage[2].data.category_id)

\* the amount tokens among ExtractWords, all greater than zero
AmountTokens == {txt_2500, w_12_50, w_12c50, w_0_5, w_0c5}

\* the text is the name c and the amount token a, in either order
NameAndAmount(text, c, a) == text \in {c \o <<" ">> \o a, a \o <<" ">> \o c}

\* the draft holds the category named c and the amount a and no date
ResolvesBoth(parsed, c, a) ==
    /\ IsSome(parsed.category) /\ Val(parsed.category).name = c
    /\ parsed.amount = DecimalOf(ReplaceComma(a))
    /\ ~IsSome(parsed.spent_at)

\* the name consists of letters
LettersOnly(name) == \A k \in 1..Len(name) : name[k] \in LowerLetters \cup UpperLetters

\* the name is one of DATE_ALIASES, whatever its case
IsDateAlias(name) ==
    \E n \in 1..Len(DATE_ALIASES) :
        /\ Len(name) = Len(DATE_ALIASES[n].alias)
        /\ \A k \in 1..Len(name) : Lower(name[k]) = DATE_ALIASES[n].alias[k]

\* C24 as stated: for every category name c of the user and every amount
\* token a, parse_smart_message of "c a" and of "a c" gives a draft with the
\* category c, the amount a and no date.
C24_NameAndAmountResolveBoth ==
    [][\A t \in BagToSet(tasks) :
          SmartResumes(t)
              => \A n \in 1..Len(t.cats) : \A a \in AmountTokens :
                     NameAndAmount(t.text, t.cats[n].name, a)
                         => ResolvesBoth(ParsedDraft(t.text, t.cats, now), t.cats[n].name, a)]_vars

\* C24: when the names of the user's categories consist of letters only and
\* c is not a date alias, parse_smart_message of "c a" and of "a c" gives a
\* draft with the category c, the amount a and no date, and the session
\* stores that category and that amount and waits for the date.
C24_PlainNameAndAmountResolveBoth ==
    [][\A t \in BagToSet(tasks) :
          (SmartResumes(t) /\ \A n \in 1..Len(t.cats) : LettersOnly(t.cats[n].name))
              => \A n \in 1..Len(t.cats) : \A a \in AmountTokens :
                     (NameAndAmount(t.text, t.cats[n].name, a) /\ ~IsDateAlias(t.cats[n].name))
                         => /\ ResolvesBoth(ParsedDraft(t.text, t.cats, now),
                                            t.cats[n].name, a)
                            /\ storage'[t.user].state = choosing_date
                            /\ storage'[t.user].data.category_name = Some(t.cats[n].name)
                            /\ Some(DecimalOf(Val(storage'[t.user].data.amount)))
                                  = Some(DecimalOf(ReplaceComma(a)))]_vars

\* "12,50 lunch" was parsed for a user with the categories taxi and lunch
C24_Witness ==
    /\ last = Reply(1, "smart_expense_input", "choose_date")
    /\ Cardinality(categories) = 2
    /\ storage[1].data.category_name = Some(w_lunch)
    /\ storage[1].data.amount = Some(w_12_50)
    /\ ~IsSome(storage[1].data.spent_at)
    /\ ~IsSome(storage[1].data.prefilled_description)

\* text.split()
RECURSIVE Words(_)
Words(text) ==
    IF Len(Strip(text)) = 0 THEN <<>>
    ELSE <<FirstPart(Strip(text))>> \o Words(AfterFirstPart(Strip(text)))

\* nothing is recognized in the draft
Unrecognized(parsed) ==
    ~IsSome(parsed.category) /\ ~IsSome(parsed.amount) /\ ~IsSome(parsed.spent_at)

\* parse_smart_message of the description of the draft recognizes nothing
ResidueUnrecognized(parsed, cats, clock) ==
    IsSome(parsed.description)
        => Unrecognized(parse_smart_message(Val(parsed.description), cats, clock))

\* the words a and b are the same whatever their case
SameWord(a, b) == Len(a) = Len(b) /\ \A k \in 1..Len(a) : Lower(a[k]) = Lower(b[k])

\* the names of the list cats are words of letters, and the words ws are
\* amount tokens and words of letters, with at most one amount token, at most
\* one date alias and at most one name of the list among them
OneOfEachKind(ws, cats) ==
    /\ \A n \in 1..Len(cats) : LettersOnly(cats[n].name)
    /\ \A k \in 1..Len(ws) : ws[k] \in AmountTokens \/ LettersOnly(ws[k])
    /\ Cardinality({k \in 1..Len(ws) : ws[k] \in AmountTokens}) <= 1
    /\ Cardinality({k \in 1..Len(ws) : IsDateAlias(ws[k])}) <= 1
    /\ Cardinality({k \in 1..Len(ws) :
                       \E n \in 1..Len(cats) : SameWord(ws[k], cats[n].name)}) <= 1

\* C25 as stated: parse_smart_message applied to the description of the draft
\* of any text, with the same categories and the same clock, recognizes no
\* category, no amount and no date.
C25_ResidueHoldsNoEntity ==
    [][\A t \in BagToSet(tasks) :
          SmartResumes(t)
              => ResidueUnrecognized(ParsedDraft(t.text, t.cats, now), t.cats, now)]_vars

\* C25: for a text of words separated by spaces, each an amount token or a
\* word of letters, with at most one amount token, at most one date alias and
\* at most one category name among them, and category names that are words
\* of letters, parse_smart_message applied to the description of the draft
\* recognizes no category, no amount and no date.
C25_ResidueOfPlainTextHoldsNoEntity ==
    [][\A t \in BagToSet(tasks) :
          (SmartResumes(t) /\ OneOfEachKind(Words(t.text), t.cats))
              => ResidueUnrecognized(ParsedDraft(t.text, t.cats, now), t.cats, now)]_vars

\* "taxi lunch 12,50" was parsed for a user whose only category is taxi: the
\* session keeps the residue "lunch"
C25_Witness ==
    /\ last = Reply(1, "smart_expense_input", "choose_date")
    /\ Cardinality(categories) = 1
    /\ storage[1].data.category_name = Some(txt_taxi)
    /\ storage[1].data.amount = Some(w_12_50)
    /\ storage[1].data.prefilled_description = Some(w_lunch)

\* the match m of DATE_PATTERN is a date after clock.date
FutureMatch(m, clock) ==
    /\ IsSome(m)
    /\ ValidDate(FullYear(Val(m).year), Val(m).month, Val(m).day)
    /\ ~DateLE(MkDate(FullYear(Val(m).year), Val(m).month, Val(m).day), clock.date)

\* the draft takes its date from the alias, if there is one, and has none if
\* not; without a date the step this leaves the session of u in is not one
\* that follows the date, no date is stored and add_expense is not called
FutureDateIgnored(u, parsed, alias) ==
    /\ IsSome(alias)
          => parsed.spent_at
                = Some(ReplaceDate(now, MinusDays(now.date, Val(alias).offset)))
    /\ ~IsSome(alias)
          => /\ ~IsSome(parsed.spent_at)
             /\ ~IsSome(storage'[u].data.spent_at)
             /\ storage'[u].state \in {choosing_category, choosing_date}
             /\ ~RecorderCalled(u)

\* C26: when the explicit date of a free text is later than today, spentAt of
\* the draft is the date of the alias the text holds, or unset when it holds
\* none; without an alias the session stores no date and is left choosing
\* the category or the date: it does not reach a later step or finalize.
C26_FutureDateInTextNotAccepted ==
    [][\A t \in BagToSet(tasks) :
          (SmartResumes(t) /\ FutureMatch(DateSearch(t.text), now))
              => FutureDateIgnored(t.user, ParsedDraft(t.text, t.cats, now),
                                   AliasSearch(t.text))]_vars

\* "taxi 01.01.2025" was parsed on 2024-03-01 for a user whose only category
\* is taxi: no date is stored and the date is asked for
C26_Witness ==
    /\ last = Reply(1, "smart_expense_input", "choose_date")
    /\ Cardinality(categories) = 1
    /\ storage[1].state = choosing_date
    /\ storage[1].data.category_name = Some(txt_taxi)
    /\ storage[1].data.prefilled_description = Some(<<".", "2", "0", "2", "5">>)
    /\ ~IsSome(storage[1].data.spent_at)

\* "vchera 01.01.2025 taxi" was parsed: the date is yesterday's, of the alias,
\* and add_expense is called with what the future date leaves as description
FutureDateThenAlias ==
    /\ Cardinality(categories) = 1
    /\ storage[1].state = entering_description
    /\ parse_spent_at_date(storage[1].data.spent_at) = Some(MinusDays(now.date, 1))
    /\ storage[1].data.amount = Some(<<"1", ".", "0", "1">>)
    /\ \E t \in BagToSet(tasks) :
          /\ t.pc = "add_expense"
          /\ Val(t.kwargs).description = Some(<<".", "2", "0", "2", "5">>)
          /\ Val(t.kwargs).spent_at.date = MinusDays(now.date, 1)

\* digit strings for the integer part and for the fraction of an amount
IntegerParts == {<<"0">>, <<"7">>, <<"1", "2">>, <<"0", "0", "7">>, txt_2500}

FractionParts == {<<"0">>, <<"5">>, <<"0", "0">>, <<"0", "5">>, <<"5", "0">>}

\* parse_smart_message and parse_amount read "i,f" as they read "i.f", for
\* every integer part i and fraction f above
CommaAndDotAgree ==
    \A i \in IntegerParts : \A f \in FractionParts :
        /\ SmartAmount(i \o <<",">> \o f).value = SmartAmount(i \o <<".">> \o f).value
        /\ SmartAmount(i \o <<",">> \o f).value = DecimalOf(i \o <<".">> \o f)
              \/ ~DecimalPositive(Val(DecimalOf(i \o <<".">> \o f)))
        /\ parse_amount(i \o <<",">> \o f) = parse_amount(i \o <<".">> \o f)
        /\ parse_amount(i \o <<",">> \o f) = SmartAmount(i \o <<".">> \o f).value

\* the amount texts with a comma among ExtractWords, each with the text that
\* has a dot in its place
CommaTokens == {<<w_12c50, w_12_50>>, <<w_0c5, w_0_5>>}

\* C27: an amount text "i,f" is read as the amount text "i.f", by
\* parse_smart_message and by parse_amount: both give the same value, and a
\* session that takes its amount from the free text "i,f" stores the amount
\* "i.f".
C27_CommaParsesAsDot ==
    [][/\ CommaAndDotAgree
       /\ \A t \in BagToSet(tasks) : \A a \in CommaTokens :
             (SmartResumes(t) /\ t.text = a[1])
                 => /\ IsSome(ParsedDraft(a[1], t.cats, now).amount)
                    /\ ParsedDraft(a[1], t.cats, now).amount
                          = ParsedDraft(a[2], t.cats, now).amount
                    /\ ParsedDraft(a[1], t.cats, now).amount = parse_amount(a[1])
                    /\ parse_amount(a[1]) = parse_amount(a[2])
                    /\ storage'[t.user].data.amount = Some(a[2])]_vars

\* the free text "0,5" or "0.5" was handled: the session holds the amount 0.5
\* and the category is asked for
C27_Witness ==
    /\ last = Reply(1, "smart_expense_input", "choose_category")
    /\ storage[1].state = choosing_category
    /\ storage[1].data.amount = Some(w_0_5)
    /\ ~IsSome(storage[1].data.prefilled_description)

\* the step the handler of the FSM state of user u takes for the text m:
\* manual_date_entered, amount_received or description_received
StepOfState(u, m) ==
    CASE storage[u].state = choosing_date
             -> manual_date_entered(u, m, storage[u], now, categories)
      [] storage[u].state = entering_amount
             -> amount_received(u, m, storage[u], categories)
      [] storage[u].state = entering_description
             -> description_received(u, m, storage[u], categories)
      [] OTHER -> Dispatched(u, m)

\* C28 as stated: parse_smart_message is applied to a text only when the
\* session of its user is Idle; a text that arrives in choosing_date,
\* entering_amount or entering_description is handled by the handler of that
\* step, not dropped by smart_expense_input; and the /add command is handled
\* by cmd_add.
C28_TextGoesToTheHandlerOfTheStep ==
    [][/\ \A t \in BagToSet(tasks) : SmartResumes(t) => storage[t.user].state = NoState
       /\ \A u \in Users : \A m \in Messages :
             (/\ IsSome(m)
              /\ storage[u].state \in {choosing_date, entering_amount, entering_description}
              /\ Handled(u, Dispatched(u, m)))
                 => /\ Routed(m, storage[u].state) # "smart_expense_input"
                    /\ Handled(u, StepOfState(u, m))
       /\ \A u \in Users :
             Handled(u, Dispatched(u, Some(txt_add_2500_taxi)))
                 => Routed(Some(txt_add_2500_taxi), storage[u].state) = "cmd_add"]_vars

\* a text is dropped by smart_expense_input while the session waits for a
\* date, an amount or a description: the routers give it every text, and
\* smart_expense_input returns when an FSM state is set
TextDroppedInLaterSteps ==
    [][\A u \in Senders : \A m \in Messages :
          (/\ IsSome(m)
           /\ storage[u].state \in {choosing_date, entering_amount, entering_description}
           /\ Handled(u, Dispatched(u, m)))
              => /\ Routed(m, storage[u].state) = "smart_expense_input"
                 /\ storage'[u] = storage[u]
                 /\ last' = NoReply
                 /\ tasks' = tasks]_vars

\* category, date and amount are all held in data
HoldsAllThree(data) ==
    /\ IsSome(data.category_id) /\ IsSome(data.category_name)
    /\ IsSome(data.spent_at)
    /\ IsSome(data.amount)

\* what the flow owes the event that gave the session of u the data `data`:
\* once category, date and amount are all there, add_expense is called at once
\* with the pending description and no prompt is sent; without a pending
\* description the step becomes entering_description and add_expense is not
\* called
LastFieldOutcome(u, data) ==
    HoldsAllThree(data)
        => IF IsSome(Prefilled(data))
           THEN FinalizesWith(u, data, Prefilled(data))
           ELSE /\ storage'[u].state = entering_description
                /\ ~RecorderCalled(u)
                /\ expenses' = expenses

\* smart_expense_input t, started in Idle, stores the description of a draft
\* that lacks a field
ResidueKept(t, parsed) ==
    (/\ storage[t.user].state = NoState
     /\ Len(t.cats) > 0
     /\ ~Unrecognized(parsed)
     /\ IsSome(parsed.description)
     /\ ~(IsSome(parsed.category) /\ IsSome(parsed.spent_at) /\ IsSome(parsed.amount)))
        => storage'[t.user].data.prefilled_description = parsed.description

\* the events that supply a category and a date
ChoiceSuppliesLastField ==
    /\ \A t \in BagToSet(tasks) :
          (Resumed(t) /\ t.pc = "get_category" /\ IsSome(t.category))
              => LastFieldOutcome(t.user, ChosenMerge(storage[t.user], Val(t.category)).data)
    /\ \A u \in Users : \A d \in CallbackDates(now) :
          (DatePicked(u, d) /\ DateLE(Val(DateFromIso(d)), now.date))
              => LastFieldOutcome(u, [storage[u].data EXCEPT
                                        !.spent_at = Some(combine_with_current_time(
                                                              Val(DateFromIso(d)), now))])

\* C29 as stated: the description a free text handled in Idle leaves, when
\* the draft lacks a category, a date or an amount, is kept in the session;
\* the event that supplies the last of the three (a category choice, a date
\* choice, a typed amount) calls add_expense with it at once, without the
\* prompt for a description; and with no description kept that event sets
\* entering_description and does not call add_expense.
C29_PendingDescriptionFinalizes ==
    [][/\ \A t \in BagToSet(tasks) :
             SmartResumes(t) => ResidueKept(t, ParsedDraft(t.text, t.cats, now))
       /\ ChoiceSuppliesLastField
       /\ \A u \in Users : \A m \in Messages :
             (AmountTyped(u, m) /\ IsSome(parse_amount(Val(m))))
                 => LastFieldOutcome(u, [storage[u].data EXCEPT
                                           !.amount = Some(DecimalStr(Val(parse_amount(Val(m)))))])]_vars

\* the same without the typed amount: the description is kept, and a category
\* choice or a date choice that supplies the last field calls add_expense with
\* it, or asks for the description when none is kept
PendingDescriptionFinalizesOnChoice ==
    [][/\ \A t \in BagToSet(tasks) :
             SmartResumes(t) => ResidueKept(t, ParsedDraft(t.text, t.cats, now))
       /\ ChoiceSuppliesLastField]_vars

\* "taxi vchera lunch" left the session waiting for the amount with the
\* description "lunch" kept
AmountAwaitedWithDescription ==
    /\ last = Reply(1, "smart_expense_input", "enter_amount")
    /\ storage[1].state = entering_amount
    /\ storage[1].data.prefilled_description = Some(w_lunch)
    /\ ~IsSome(storage[1].data.amount)

\* the handlers of the final event of a guided session
FinalHandlers == {"skip_description", "description_received"}

\* two deliveries of the final event of user u are suspended in add_expense
\* at the same time, both with a category that exists
DeliveredTwice(u, t1, t2) ==
    /\ t1.pc = "add_expense" /\ t2.pc = "add_expense"
    /\ t1.handler \in FinalHandlers /\ t2.handler \in FinalHandlers
    /\ t1.raised # "ValueError" /\ t2.raised # "ValueError"
    /\ t1 # t2 \/ CopiesIn(t1, tasks) >= 2

\* the expenses recorded for user u with the fields add_expense was given
RecordedFor(u, kwargs) ==
    {k \in 1..Len(expenses) :
        /\ expenses[k].user_id = u
        /\ expenses[k].amount = kwargs.amount
        /\ expenses[k].category_id = kwargs.category_id
        /\ expenses[k].spent_at = kwargs.spent_at}

NoSessionRecordedTwice ==
    \A u \in Users : \A t \in InFlight(u) :
        t.pc = "add_expense" => Cardinality(RecordedFor(u, Val(t.kwargs))) <= 1

\* the fields a session must hold for its FSM state
StepAgreesWithFields(session) ==
    /\ session.state = choosing_date
          => IsSome(session.data.category_id)
    /\ session.state = entering_amount
          => IsSome(session.data.category_id) /\ IsSome(session.data.spent_at)
    /\ session.state = entering_description
          => /\ IsSome(session.data.category_id) /\ IsSome(session.data.category_name)
             /\ IsSome(session.data.spent_at) /\ IsSome(session.data.amount)

\* C31: between events the FSM state agrees with the collected fields:
\* choosing_date holds a category, entering_amount a category and spent_at,
\* entering_description a category, spent_at and an amount, so that
\* finalize_expense started from entering_description never misses a key.
C31_StepAgreesWithFields ==
    /\ \A u \in Users : StepAgreesWithFields(storage[u])
    /\ last.by \in FinalHandlers => last.kind # "finalize_failed"

\* a session waits for the description with all three fields
C31_Witness ==
    /\ storage[1].state = entering_description
    /\ HoldsRequired(storage[1].data)
    /\ last.kind = "enter_description"

\* the choice callback `action` does not belong to the FSM state `state`
Stale(action, state) ==
    \/ action = "choose" /\ state # choosing_category
    \/ action = "date" /\ state # choosing_date
    \/ action = "skip_description" /\ state # entering_description

\* C32: a category choice delivered outside choosing_category, a date choice
\* delivered outside choosing_date and a skip of the description delivered
\* outside entering_description (a button of a stale keyboard) leave the FSM
\* state and the collected fields of the user as they were, call no service
\* and record nothing.
C32_StaleChoiceChangesNothing ==
    [][\A u \in Users : \A action \in ChoiceActions :
          \A id \in CategoryIds : \A d \in CallbackDates(now) :
              (/\ Stale(action, storage[u].state)
               /\ Handled(u, CallbackDispatched(u, action, id, d)))
                  => /\ storage' = storage
                     /\ tasks' = tasks
                     /\ expenses' = expenses /\ categories' = categories
                     /\ last' = NoReply]_vars

\* the session waits for the description, where the category and date
\* buttons are stale, and the last event was left without an answer
C32_Witness ==
    /\ last = NoReply
    /\ storage[1].state = entering_description
    /\ HoldsRequired(storage[1].data)
    /\ tasks = EmptyBag

\* the explicit dates of the texts that are not after StartClock
PastDates == {w_15_02_2024}

\* text is a category name of cats and a date of PastDates, in either order
NameAndPastDate(text, cats) ==
    \E k \in 1..Len(cats) : \E d \in PastDates :
        /\ LettersOnly(cats[k].name)
        /\ text \in {JoinWords(<<cats[k].name, d>>), JoinWords(<<d, cats[k].name>>)}

\* C33 as stated: for a text made of a category name and one explicit date
\* DD.MM.YYYY that is not in the future, with no other digits, the draft has
\* no amount (the digits of the date are not read as one), so that
\* smart_expense_input leaves the session in entering_amount and calls
\* add_expense for nothing.
C33_DateDigitsAreNotTheAmount ==
    [][\A t \in BagToSet(tasks) :
          (SmartResumes(t) /\ NameAndPastDate(t.text, t.cats))
              => /\ ~IsSome(ParsedDraft(t.text, t.cats, now).amount)
                 /\ storage'[t.user].state = entering_amount
                 /\ ~RecorderCalled(t.user)
                 /\ expenses' = expenses]_vars

\* a text with the category, the date 15.02.2024 and a description was read
\* as the amount 15.02 spent on 2024-02-15: add_expense is called with it at
\* once
DateDigitsSentAsAmount ==
    \E t \in BagToSet(tasks) :
        /\ t.pc = "add_expense" /\ t.handler = "smart_expense_input"
        /\ Val(t.kwargs).amount = [neg |-> FALSE, coef |-> 1502, places |-> 2]
        /\ Val(t.kwargs).spent_at.date = MkDate(2024, 2, 15)

\* the aliases of DATE_ALIASES that occur in text as whole words
AliasesIn(text) ==
    {n \in 1..Len(DATE_ALIASES) : IsSome(WordSearch(text, DATE_ALIASES[n].alias))}

\* where the alias n starts in text
AliasStart(text, n) == Val(WordSearch(text, DATE_ALIASES[n].alias)).from

\* the alias that occurs first in text, reading from the left
LeftmostAlias(text) ==
    CHOOSE n \in AliasesIn(text) :
        \A j \in AliasesIn(text) : AliasStart(text, n) <= AliasStart(text, j)

\* the alias found first in the order of DATE_ALIASES
FirstListedAlias(text) ==
    CHOOSE n \in AliasesIn(text) : \A j \in AliasesIn(text) : n <= j

\* text holds several date aliases and no explicit date that is accepted
SeveralAliases(text) ==
    /\ Cardinality(AliasesIn(text)) >= 2
    /\ ~IsSome(DateSearch(text)) \/ FutureMatch(DateSearch(text), now)

\* the draft is dated by the alias n
DatedByAlias(parsed, n) ==
    parsed.spent_at = Some(ReplaceDate(now, MinusDays(now.date, DATE_ALIASES[n].offset)))

\* C34 as stated: when a text holds no accepted explicit date and several
\* date aliases as whole words, spent_at comes from the alias that occurs
\* first in the text, read from left to right.
C34_LeftmostAliasWins ==
    [][\A t \in BagToSet(tasks) :
          (SmartResumes(t) /\ SeveralAliases(t.text))
              => DatedByAlias(ParsedDraft(t.text, t.cats, now), LeftmostAlias(t.text))]_vars

\* what the loop over DATE_ALIASES does: of several aliases in a text the one
\* listed first in DATE_ALIASES dates the draft, wherever it stands in the text
FirstListedAliasWins ==
    [][\A t \in BagToSet(tasks) :
          (SmartResumes(t) /\ SeveralAliases(t.text))
              => DatedByAlias(ParsedDraft(t.text, t.cats, now),
                              FirstListedAlias(t.text))]_vars

\* the categories of the list whose name occurs in text as a whole word
NamedIn(text, cats) ==
    {k \in 1..Len(cats) : IsSome(WordSearch(text, cats[k].name))}

\* the draft holds a category named in the text that no other category named
\* in the text exceeds in length of name
LongestNamed(parsed, text, cats) ==
    \E k \in NamedIn(text, cats) :
        /\ parsed.category = Some(cats[k])
        /\ \A j \in NamedIn(text, cats) : Len(cats[j].name) <= Len(cats[k].name)

\* C35: when the names of several categories of the user occur in the text
\* as whole words, the draft holds the one with the longest name; a text
\* holding a name that begins with another name gets the longer one.
C35_LongestNameWins ==
    [][\A t \in BagToSet(tasks) :
          (SmartResumes(t) /\ NamedIn(Strip(t.text), t.cats) # {})
              => /\ LongestNamed(ParsedDraft(t.text, t.cats, now), Strip(t.text), t.cats)
                 /\ storage'[t.user].data.category_name
                       = Some(Val(ParsedDraft(t.text, t.cats, now).category).name)]_vars

\* a text naming "taxi bus" was parsed for a user who also has "taxi": the
\* session holds "taxi bus"
C35_Witness ==
    /\ last.by = "smart_expense_input"
    /\ \E r \in categories : r.user_id = 1 /\ r.name = txt_taxi
    /\ storage[1].data.category_id = Some(5)
    /\ storage[1].data.category_name = Some(w_taxi_bus)

\* the numeric tokens among the words ws, as positions of ws
NumbersAt(ws) == {k \in 1..Len(ws) : \E n \in NumberTokens : n.token = ws[k]}

\* the Decimal of the first numeric token of ws
FirstNumber(ws) ==
    (CHOOSE n \in NumberTokens :
         n.token = ws[CHOOSE k \in NumbersAt(ws) : \A j \in NumbersAt(ws) : k <= j]).value

\* the amount the first numeric token of ws decides: its value when it is
\* positive, none when it is zero
AmountOfFirst(ws) ==
    IF FirstNumber(ws).coef > 0 THEN Some(FirstNumber(ws)) ELSE None

\* C36: in a text with several numeric tokens the first token alone decides
\* the amount, read as a whole run of digits: the amount is its value when
\* that is positive and stays unset when it is zero; no later token is used
\* in its place, and the text is handled without an error.
C36_FirstNumberDecidesAmount ==
    [][\A t \in BagToSet(tasks) : \A ws \in WordListsOf(NumberWords) :
          (SmartResumes(t) /\ t.text = JoinWords(ws) /\ NumbersAt(ws) # {})
              => /\ ParsedDraft(t.text, t.cats, now).amount = AmountOfFirst(ws)
                 /\ IsSome(storage'[t.user].data.amount) = IsSome(AmountOfFirst(ws))
                 /\ IsSome(AmountOfFirst(ws))
                       => storage'[t.user].data.amount
                             = Some(DecimalStr(Val(AmountOfFirst(ws))))
                 /\ last'.by = "smart_expense_input"]_vars

\* a text with the tokens 0 and 2500 in this order was parsed: the zero
\* decided, the session holds no amount and both tokens are the description
C36_Witness ==
    /\ last.by = "smart_expense_input"
    /\ ~IsSome(storage[1].data.amount)
    /\ storage[1].data.prefilled_description = Some(JoinWords(<<txt_0, txt_2500>>))

\* a call of add_expense has raised
RecorderFailed == \E t \in BagToSet(tasks) : t.pc = "add_expense" /\ t.raised # ""

\* C37 as stated: a session that has left Idle returns to Idle once the user
\* has answered the prompts of the remaining steps (a category, a date, an
\* amount, a description or its skip), one valid answer each, the user
\* having categories, unless a call of add_expense fails.
C37_GuidedSessionEnds ==
    (storage[1].state # NoState) ~> (storage[1].state = NoState \/ RecorderFailed)

\* the session waits for the amount and no handler is suspended: the answers
\* left to the user are texts
AmountAwaited ==
    /\ storage[1].state = entering_amount
    /\ tasks = EmptyBag

\* a session that waits for the amount or for the description, no free text
\* sent earlier being still in flight, is never left by an answer: only
\* Cancel and Restart, which are no answers, end it
AnswersNeverEndTheLastSteps ==
    [][\A u \in Senders :
          (/\ storage[u].state \in {entering_amount, entering_description}
           /\ \A t \in InFlight(u) : t.handler # "smart_expense_input")
              => storage'[u] = storage[u]]_vars

\* the command "/add 2500 taxi" of user u is dispatched in this step
AddCommandHandled(u) == Handled(u, Dispatched(u, Some(txt_add_2500_taxi)))

\* C38 as stated: the command "/add <amount> <category> [description]" is
\* an entry of its own: it records one expense and confirms it, or it
\* reports an error and records nothing, and either way the FSM state and
\* the collected fields of the user are after it what they were before.
C38_AddCommandRecordsOrReports ==
    [][\A u \in Senders :
          AddCommandHandled(u)
              => /\ storage'[u] = storage[u]
                 /\ \/ /\ Len(expenses') = Len(expenses) + 1
                       /\ last'.to = u /\ last'.kind = "success"
                    \/ /\ expenses' = expenses
                       /\ last'.to = u /\ last'.kind # "none"]_vars

\* what the command does: nothing is recorded, nothing is answered and the
\* session is left as it was
AddCommandIsDropped ==
    [][\A u \in Senders :
          AddCommandHandled(u)
              => /\ storage' = storage
                 /\ expenses' = expenses
                 /\ tasks' = tasks
                 /\ last' = NoReply]_vars

\* the trimmed, lower-cased name of a row, computed from its name
NormalizedName(r) == normalize_name(r.name)

\* no two categories of one user have the same normalized name
NamesAreUnique(table) ==
    \A u \in Users :
        Cardinality({NormalizedName(r) : r \in {q \in table : q.user_id = u}})
            = Cardinality({q \in table : q.user_id = u})

\* user u has a category other than the one of id `but` whose normalized
\* name is that of name
NameTaken(table, u, name, but) ==
    \E r \in table :
        r.user_id = u /\ r.id # but /\ NormalizedName(r) = normalize_name(name)

\* C39: whatever creates and renames of categories have been made, two of
\* one user interleaved at their repository calls included, no two
\* categories of one user have the same trimmed, lower-cased name; a create
\* or a rename that would give a user a second category of a name is
\* refused and changes no category.
C39_CategoryNamesStayUnique ==
    [][/\ NamesAreUnique(categories')
       /\ \A t \in BagToSet(tasks) :
             (/\ Resumed(t) /\ t.pc = "get_by_normalized_name"
              /\ NameTaken(categories, t.user, t.text,
                           IF t.handler = "rename_category" THEN Val(t.category).id
                           ELSE 0))
                 => /\ categories' = categories
                    /\ last'.kind \in {"category_exists", "none"}]_vars

\* two creates of one name were interleaved: user 1 has one more category,
\* and the create that came second to add_category was left without answer
C39_Witness ==
    /\ Cardinality({r \in categories : r.user_id = 1}) = 2
    /\ \E r \in categories : r.user_id = 1 /\ r.name = w_bus
    /\ last = NoReply
    /\ tasks = EmptyBag

====
